---- MODULE Spec2Model ----
(***************************************************************************)
(* Builder VM (src/src/Machine.js) as a state machine.                     *)
(*                                                                         *)
(* One execute() call walks the parsed source instruction by instruction.  *)
(* The JavaScript call stack of _execute frames is the variable `stack`,   *)
(* a thrown exception that travels up through the per-instruction catch    *)
(* blocks is the variable `exc`.                                           *)
(***************************************************************************)
EXTENDS Integers, Sequences, FiniteSets, TLC

\* ------------------------------------------------------------------ bounds

\* longest generated main source, in lines
MaxLen == 2
\* longest generated main source made of include directives only
MaxIncludes == 3
\* longest generated directive-free text, in characters
MaxText == 3
\* the turns of a loop that are followed: a loop that has run this many is
\* left where it is
MaxIterations == 257

\* --------------------------------------------------------------- constants

MAX_EXECUTION_DEPTH == 256
TIMEOUT == 30000
STATUS_FETCH_FAILED == 2
STATUS_API_RATE_LIMIT == 3

\* ------------------------------------------------------------------ values

\* Expression values: a tagged record with the same fields
\* for every kind (n: the number, s: an atomic string, t: its text).
Null == [k |-> "null", n |-> 0, s |-> "", t |-> <<>>]
Num(n) == [k |-> "num", n |-> n, s |-> "", t |-> <<>>]
Str(s) == [k |-> "str", n |-> 0, s |-> s, t |-> IF s = "" THEN <<>> ELSE <<s>>]
\* a string built by joining an output buffer
TextStr(t) == [k |-> "str", n |-> 0, s |-> "", t |-> t]
Bool(b) == [k |-> "bool", n |-> IF b THEN 1 ELSE 0, s |-> "", t |-> <<>>]
\* the callable a Macro instruction installs in the global context
MacroFn(name) == [k |-> "fn", n |-> 0, s |-> name, t |-> <<>>]
\* a built-in function of the machine
BuiltinFn(name) == [k |-> "builtin", n |-> 0, s |-> name, t |-> <<>>]
\* the object {index, iteration: index + 1} bound to `loop`
LoopObj(index) == [k |-> "loop", n |-> index, s |-> "", t |-> <<>>]

\* JavaScript truthiness of a value
Truthy(v) ==
  CASE v.k = "null" -> FALSE
    [] v.k = "num" -> v.n # 0
    [] v.k = "str" -> v.t # <<>>
    [] v.k = "bool" -> v.n = 1
    [] OTHER -> TRUE

\* ------------------------------------------------------------------- text

\* Text is a sequence of characters; "\n" is the line terminator.
NL == "\n"

DigitChar == <<"0", "1", "2", "3", "4", "5", "6", "7", "8", "9">>

RECURSIVE Digits(_)
\* decimal digits of a natural number
Digits(n) ==
  IF n < 10 THEN <<DigitChar[n + 1]>>
  ELSE Digits(n \div 10) \o <<DigitChar[(n % 10) + 1]>>

\* String(value): the text an Output instruction emits for a value
StringOf(v) ==
  CASE v.k = "null" -> <<"null">>
    [] v.k = "num" -> Digits(v.n)
    [] v.k = "str" -> v.t
    [] v.k = "bool" -> IF v.n = 1 THEN <<"true">> ELSE <<"false">>
    [] OTHER -> <<"[object]">>

\* --------------------------------------------------------------- contexts

\* A context maps identifiers to values; an identifier outside its domain is
\* undefined.
EmptyContext == [key \in {} |-> Null]

Bind(key, v) == [x \in {key} |-> v]

\* _mergeContexts(a, b): a clone of a overlaid by b
MergeContexts(a, b) ==
  [key \in DOMAIN a \cup DOMAIN b |-> IF key \in DOMAIN b THEN b[key] ELSE a[key]]

\* ------------------------------------------------------------ expressions

\* Expression sources, by their syntax tree.  args of a call are literals or
\* identifiers.
ELit(v) == [e |-> "lit", v |-> v, name |-> "", args |-> <<>>]
EVar(name) == [e |-> "var", v |-> Null, name |-> name, args |-> <<>>]
\* 1/0
EDivZero == [e |-> "divzero", v |-> Null, name |-> "", args |-> <<>>]
\* name(args...)
ECall(name, args) == [e |-> "call", v |-> Null, name |-> name, args |-> args]
\* loop.index
ELoopIndex == [e |-> "loopindex", v |-> Null, name |-> "loop", args |-> <<>>]
\* name < v
ELess(name, v) == [e |-> "less", v |-> v, name |-> name, args |-> <<>>]
\* name + v
EPlus(name, v) == [e |-> "plus", v |-> v, name |-> name, args |-> <<>>]

\* an identifier evaluates to its binding, and to null when undefined
Variable(name, ctx) == IF name \in DOMAIN ctx THEN ctx[name] ELSE Null

\* ToNumber of the values the arithmetic of the model meets
NumberOf(v) == IF v.k \in {"num", "bool"} THEN v.n ELSE 0

Value(v) == [tag |-> "value", v |-> v, name |-> "", args |-> <<>>]
\* the evaluation fails with an ExpressionError
Failure == [tag |-> "error", v |-> Null, name |-> "", args |-> <<>>]
\* the evaluation calls a function value of the context with args
Invoke(fn, args) == [tag |-> "call", v |-> fn, name |-> fn.s, args |-> args]

\* Expression.evaluate(source, context) up to the call of a function of the
\* context, which the machine runs
Evaluate(expr, ctx) ==
  CASE expr.e = "lit" -> Value(expr.v)
    [] expr.e = "var" -> Value(Variable(expr.name, ctx))
    [] expr.e = "divzero" -> Failure
    [] expr.e = "loopindex" ->
         LET l == Variable("loop", ctx)
         IN  Value(IF l.k = "loop" THEN Num(l.n) ELSE Null)
    [] expr.e = "less" ->
         Value(Bool(NumberOf(Variable(expr.name, ctx)) < NumberOf(expr.v)))
    [] expr.e = "plus" ->
         Value(Num(NumberOf(Variable(expr.name, ctx)) + NumberOf(expr.v)))
    [] expr.e = "call" ->
         IF Variable(expr.name, ctx).k = "fn"
         THEN Invoke(Variable(expr.name, ctx),
                     [i \in DOMAIN expr.args |->
                        IF expr.args[i].e = "var"
                        THEN Variable(expr.args[i].name, ctx)
                        ELSE expr.args[i].v])
         ELSE Failure

\* ----------------------------------------------------------- source text

\* A source is a sequence of lines.  A text line is a sequence of segments,
\* verbatim text (with the line's terminator, if it has one) or an inline
\* expression @{...}; a directive line carries its operands, and a block
\* directive its nested lines.
Lit(text) == [lit |-> TRUE, text |-> text, expr |-> ELit(Null)]
Inline(expr) == [lit |-> FALSE, text |-> <<>>, expr |-> expr]

NoLine ==
  [d |-> "", segs |-> <<>>, variable |-> "", value |-> ELit(Null),
   once |-> FALSE, body |-> <<>>, elseifs |-> <<>>, hasElse |-> FALSE,
   alt |-> <<>>, name |-> "", params |-> <<>>]

TextLine(segs) == [NoLine EXCEPT !.d = "text", !.segs = segs]
SetLine(variable, value) ==
  [NoLine EXCEPT !.d = "set", !.variable = variable, !.value = value]
IncludeLine(value, once) ==
  [NoLine EXCEPT !.d = "include", !.value = value, !.once = once]
ErrorLine(value) == [NoLine EXCEPT !.d = "error", !.value = value]
WarningLine(value) == [NoLine EXCEPT !.d = "warning", !.value = value]
MacroLines(name, params, body) ==
  [NoLine EXCEPT !.d = "macro", !.name = name, !.params = params, !.body = body]
WhileLines(test, body) ==
  [NoLine EXCEPT !.d = "while", !.value = test, !.body = body]
RepeatLines(times, body) ==
  [NoLine EXCEPT !.d = "repeat", !.value = times, !.body = body]
ElseIf(test, body) == [test |-> test, body |-> body]
IfLines(test, body, elseifs, hasElse, alt) ==
  [NoLine EXCEPT !.d = "if", !.value = test, !.body = body,
                 !.elseifs = elseifs, !.hasElse = hasElse, !.alt = alt]

\* ------------------------------------------------------------------ parser

INSTRUCTIONS ==
  [SET |-> "set", LOOP |-> "loop", ERROR |-> "error", WARNING |-> "warning",
   MACRO |-> "macro", OUTPUT |-> "output", INCLUDE |-> "include",
   CONDITIONAL |-> "conditional"]

\* An instruction of the AST; line is its _line.
NoInstruction ==
  [type |-> "", line |-> 0, value |-> ELit(Null), text |-> <<>>,
   computed |-> FALSE, once |-> FALSE, variable |-> "", test |-> ELit(Null),
   consequent |-> <<>>, elseifs |-> <<>>, hasAlternate |-> FALSE,
   alternate |-> <<>>, kind |-> "", declaration |-> [name |-> "", args |-> <<>>],
   body |-> <<>>]

RECURSIVE Span(_), SpanOf(_), ElseifSpan(_), Parse(_, _), ParseElseifs(_, _)

\* source lines a sequence of lines takes, the lines of nested blocks and
\* their terminators included
Span(lines) ==
  IF lines = <<>> THEN 0 ELSE SpanOf(Head(lines)) + Span(Tail(lines))

ElseifSpan(elseifs) ==
  IF elseifs = <<>> THEN 0
  ELSE 1 + Span(Head(elseifs).body) + ElseifSpan(Tail(elseifs))

SpanOf(l) ==
  CASE l.d = "if" ->
         1 + Span(l.body) + ElseifSpan(l.elseifs)
           + (IF l.hasElse THEN 1 + Span(l.alt) ELSE 0) + 1
    [] l.d \in {"while", "repeat", "macro"} -> 1 + Span(l.body) + 1
    [] OTHER -> 1

\* the Output instructions of a text line at line n
ParseText(segs, n) ==
  [i \in DOMAIN segs |->
     IF segs[i].lit
     THEN [NoInstruction EXCEPT !.type = INSTRUCTIONS.OUTPUT, !.line = n,
                                !.text = segs[i].text, !.computed = TRUE]
     ELSE [NoInstruction EXCEPT !.type = INSTRUCTIONS.OUTPUT, !.line = n,
                                !.value = segs[i].expr]]

\* the Conditional instructions of the @elseif branches, the first at line n
ParseElseifs(elseifs, n) ==
  IF elseifs = <<>> THEN <<>>
  ELSE <<[NoInstruction EXCEPT !.type = INSTRUCTIONS.CONDITIONAL, !.line = n,
                               !.test = Head(elseifs).test,
                               !.consequent = Parse(Head(elseifs).body, n + 1)]>>
       \o ParseElseifs(Tail(elseifs), n + 1 + Span(Head(elseifs).body))

\* the instruction of a directive at line n
ParseDirective(l, n) ==
  CASE l.d = "set" ->
         [NoInstruction EXCEPT !.type = INSTRUCTIONS.SET, !.line = n,
                               !.variable = l.variable, !.value = l.value]
    [] l.d = "include" ->
         [NoInstruction EXCEPT !.type = INSTRUCTIONS.INCLUDE, !.line = n,
                               !.value = l.value, !.once = l.once]
    [] l.d = "error" ->
         [NoInstruction EXCEPT !.type = INSTRUCTIONS.ERROR, !.line = n,
                               !.value = l.value]
    [] l.d = "warning" ->
         [NoInstruction EXCEPT !.type = INSTRUCTIONS.WARNING, !.line = n,
                               !.value = l.value]
    [] l.d = "macro" ->
         [NoInstruction EXCEPT !.type = INSTRUCTIONS.MACRO, !.line = n,
                               !.declaration = [name |-> l.name, args |-> l.params],
                               !.body = Parse(l.body, n + 1)]
    [] l.d \in {"while", "repeat"} ->
         [NoInstruction EXCEPT !.type = INSTRUCTIONS.LOOP, !.line = n,
                               !.kind = l.d, !.value = l.value,
                               !.body = Parse(l.body, n + 1)]
    [] l.d = "if" ->
         [NoInstruction EXCEPT
            !.type = INSTRUCTIONS.CONDITIONAL, !.line = n, !.test = l.value,
            !.consequent = Parse(l.body, n + 1),
            !.elseifs = ParseElseifs(l.elseifs, n + 1 + Span(l.body)),
            !.hasAlternate = l.hasElse,
            !.alternate =
              Parse(l.alt, n + 1 + Span(l.body) + ElseifSpan(l.elseifs) + 1)]

\* AstParser.parse: the instructions of the lines, the first at line n
Parse(lines, n) ==
  IF lines = <<>> THEN <<>>
  ELSE (IF Head(lines).d = "text" THEN ParseText(Head(lines).segs, n)
        ELSE <<ParseDirective(Head(lines), n)>>)
       \o Parse(Tail(lines), n + SpanOf(Head(lines)))

\* ------------------------------------------------------------------ reader

\* The references the sources of the model use, each with what
\* GithubReader.parseUrl finds in it (user u, repository r) and the source the
\* repository holds under that path.
RefA == "github:u/r/lib/a.builder"
RefB == "github:u/r/lib/b.builder"
RefC == "github:u/r/lib/c.builder"
\* the same file name as RefA in another directory
RefA2 == "github:u/r/lib2/a.builder"
\* includes RefA once, then emits a line
RefN == "github:u/r/lib/n.builder"
\* declares macro M
RefD == "github:u/r/lib/d.builder"
\* evaluates 1/0
RefE == "github:u/r/lib/e.builder"
\* a file whose fetch may fail
RefF == "github:u/r/lib/f.builder"
\* include each other
RefX == "github:u/r/cyc/x.builder"
RefY == "github:u/r/cyc/y.builder"
\* emits the variable v
RefV == "github:u/r/lib/v.builder"
\* emits its __PATH__, __FILE__ and __LINE__
RefP == "github:u/r/lib/path.builder"
\* an expression whose value is the empty string, and no line terminator
RefZ == "github:u/r/lib/z.builder"
\* include themselves and each other, every time with the once flag
RefS == "github:u/r/cyc/s.builder"
RefO == "github:u/r/cyc/o.builder"
\* not a GitHub reference
RefLocal == "local.txt"
\* RefA between blanks
RefAPadded == " github:u/r/lib/a.builder "

\* String.prototype.trim on the references of the model
Trim(s) == IF s = RefAPadded THEN RefA ELSE s

Line(text) == TextLine(<<Lit(text)>>)

\* n conditional branches, each inside the one before, around the lines
\* given
RECURSIVE NestedIfs(_, _)
NestedIfs(n, lines) ==
  IF n = 0 THEN lines
  ELSE <<IfLines(ELit(Num(1)), NestedIfs(n - 1, lines), <<>>, FALSE, <<>>)>>

\* Sixteen files that make a ring: each includes the next one once, inside
\* fifteen conditional branches, and the last includes the first.
Ring ==
  <<[ref |-> "github:u/r/cyc/1.builder", base |-> "1.builder"],
    [ref |-> "github:u/r/cyc/2.builder", base |-> "2.builder"],
    [ref |-> "github:u/r/cyc/3.builder", base |-> "3.builder"],
    [ref |-> "github:u/r/cyc/4.builder", base |-> "4.builder"],
    [ref |-> "github:u/r/cyc/5.builder", base |-> "5.builder"],
    [ref |-> "github:u/r/cyc/6.builder", base |-> "6.builder"],
    [ref |-> "github:u/r/cyc/7.builder", base |-> "7.builder"],
    [ref |-> "github:u/r/cyc/8.builder", base |-> "8.builder"],
    [ref |-> "github:u/r/cyc/9.builder", base |-> "9.builder"],
    [ref |-> "github:u/r/cyc/10.builder", base |-> "10.builder"],
    [ref |-> "github:u/r/cyc/11.builder", base |-> "11.builder"],
    [ref |-> "github:u/r/cyc/12.builder", base |-> "12.builder"],
    [ref |-> "github:u/r/cyc/13.builder", base |-> "13.builder"],
    [ref |-> "github:u/r/cyc/14.builder", base |-> "14.builder"],
    [ref |-> "github:u/r/cyc/15.builder", base |-> "15.builder"],
    [ref |-> "github:u/r/cyc/16.builder", base |-> "16.builder"]>>

Repository ==
  [ref \in {RefA, RefB, RefC, RefA2, RefN, RefD, RefE, RefF, RefX, RefY, RefV, RefP,
            RefZ, RefS, RefO} \cup {Ring[i].ref : i \in DOMAIN Ring} |->
     CASE ref = RefA -> [dir |-> "lib", base |-> "a.builder",
                         content |-> <<Line(<<"a", NL>>)>>]
       [] ref = RefB -> [dir |-> "lib", base |-> "b.builder",
                         content |-> <<Line(<<"b", NL>>)>>]
       [] ref = RefC -> [dir |-> "lib", base |-> "c.builder",
                         content |-> <<Line(<<"c", NL>>)>>]
       [] ref = RefA2 -> [dir |-> "lib2", base |-> "a.builder",
                          content |-> <<Line(<<"A", NL>>)>>]
       [] ref = RefN -> [dir |-> "lib", base |-> "n.builder",
                         content |-> <<IncludeLine(ELit(Str(RefAPadded)), TRUE),
                                       Line(<<"n", NL>>)>>]
       [] ref = RefD -> [dir |-> "lib", base |-> "d.builder",
                         content |->
                           <<MacroLines("M", <<"p", "q">>,
                               <<TextLine(<<Inline(EVar("p")), Inline(EVar("q")),
                                            Lit(<<NL>>)>>)>>)>>]
       [] ref = RefE -> [dir |-> "lib", base |-> "e.builder",
                         content |-> <<Line(<<"e", NL>>),
                                       TextLine(<<Inline(EDivZero)>>)>>]
       [] ref = RefF -> [dir |-> "lib", base |-> "f.builder",
                         content |-> <<Line(<<"f", NL>>)>>]
       [] ref = RefX -> [dir |-> "cyc", base |-> "x.builder",
                         content |-> <<Line(<<"x", NL>>),
                                       IncludeLine(ELit(Str(RefY)), FALSE)>>]
       [] ref = RefY -> [dir |-> "cyc", base |-> "y.builder",
                         content |-> <<IncludeLine(ELit(Str(RefX)), FALSE)>>]
       [] ref = RefV -> [dir |-> "lib", base |-> "v.builder",
                         content |-> <<TextLine(<<Inline(EVar("v")), Lit(<<NL>>)>>)>>]
       [] ref = RefP -> [dir |-> "lib", base |-> "path.builder",
                         content |->
                           <<TextLine(<<Inline(EVar("__PATH__")), Lit(<<"#">>),
                                        Inline(EVar("__FILE__")), Lit(<<"@">>),
                                        Inline(EVar("__LINE__")), Lit(<<NL>>)>>)>>]
       [] ref = RefZ -> [dir |-> "lib", base |-> "z.builder",
                         content |-> <<TextLine(<<Inline(ELit(Str("")))>>)>>]
       [] ref = RefS -> [dir |-> "cyc", base |-> "s.builder",
                         content |-> <<IncludeLine(ELit(Str(RefS)), TRUE),
                                       IncludeLine(ELit(Str(RefO)), TRUE),
                                       Line(<<"s", NL>>)>>]
       [] ref = RefO -> [dir |-> "cyc", base |-> "o.builder",
                         content |->
                           <<IfLines(ELit(Num(1)),
                                     <<IncludeLine(ELit(Str(RefS)), TRUE),
                                       IncludeLine(ELit(Str(RefO)), TRUE)>>,
                                     <<>>, FALSE, <<>>),
                             Line(<<"o", NL>>)>>]
       [] OTHER ->
            LET i == CHOOSE k \in DOMAIN Ring : Ring[k].ref = ref
            IN  [dir |-> "cyc", base |-> Ring[i].base,
                 content |->
                   NestedIfs(Len(Ring) - 1,
                             <<IncludeLine(ELit(Str(Ring[(i % Len(Ring)) + 1].ref)),
                                           TRUE)>>)]]

\* GithubReader.parseUrl: the parts of a GitHub reference, or false
ParseUrl(source) ==
  IF source \in DOMAIN Repository
  THEN [match |-> TRUE, user |-> "u", repo |-> "r",
        dir |-> Repository[source].dir, base |-> Repository[source].base]
  ELSE [match |-> FALSE, user |-> "", repo |-> "", dir |-> "", base |-> ""]

\* GithubReader.supports
Supports(source) == ParseUrl(source).match

\* `github:${user}/${repo}/${dirname}`, by directory
GithubPath(parsed) ==
  CASE parsed.dir = "lib" -> "github:u/r/lib"
    [] parsed.dir = "lib2" -> "github:u/r/lib2"
    [] parsed.dir = "cyc" -> "github:u/r/cyc"

\* GithubReader.parsePath
ParsePath(source) ==
  LET parsed == ParseUrl(source)
  IN  [x \in {"__FILE__", "__PATH__"} |->
         IF x = "__FILE__" THEN Str(parsed.base) ELSE Str(GithubPath(parsed))]

\* What childProcess.spawnSync returns for the worker: it exited with a status,
\* or it did not (killed on timeout, or never spawned) and error is set. A
\* worker that exits with 0 as the timer fires leaves both status 0 and the
\* error of the timeout.
Exited(status) == [exited |-> TRUE, status |-> status, errno |-> ""]
Killed(errno) == [exited |-> FALSE, status |-> 0, errno |-> errno]

ChildResults ==
  {Exited(0), Exited(1), Exited(STATUS_FETCH_FAILED), Exited(STATUS_API_RATE_LIMIT),
   Killed("ETIMEDOUT"), Killed("ENOENT"),
   [Exited(0) EXCEPT !.errno = "ETIMEDOUT"]}

\* the results the worker may end with for a reference: only RefF may fail
ChildResultsFor(source) == IF source = RefF THEN ChildResults ELSE {Exited(0)}

\* child.status === status (child.status is null when the worker did not exit)
StatusIs(child, status) == child.exited /\ child.status = status

Content(text) == [ok |-> TRUE, content |-> text, kind |-> "", message |-> ""]
SourceReadingError(message) ==
  [ok |-> FALSE, content |-> <<>>, kind |-> "SourceReadingError", message |-> message]

\* GithubReader.read. child.stderr is null when the worker was never
\* spawned, and child.stderr.toString() then throws a TypeError.
Read(source, child) ==
  IF StatusIs(child, STATUS_FETCH_FAILED) \/ StatusIs(child, STATUS_API_RATE_LIMIT)
  THEN SourceReadingError("stderr")
  ELSE IF ~StatusIs(child, 0)
  THEN IF ~child.exited /\ child.errno # "ETIMEDOUT"
       THEN [SourceReadingError("Cannot read property 'toString' of null")
               EXCEPT !.kind = "TypeError"]
       ELSE SourceReadingError("Unknown error")
  ELSE IF child.errno # ""
  THEN IF child.errno = "ETIMEDOUT"
       THEN SourceReadingError("timed out")
       ELSE SourceReadingError("Failed to fetch url")
  ELSE Content(Repository[source].content)

\* ----------------------------------------------------------------- errors

\* An exception: its class, its message, the (file:line) suffixes appended to
\* the message, and for MacroIsAlreadyDeclared the place of the first
\* declaration.
NoException == [kind |-> "", message |-> <<>>, at |-> <<>>, declared |-> <<>>]

Exception(kind, message) == [NoException EXCEPT !.kind = kind, !.message = message]

\* (${context.__FILE__}:${context.__LINE__})
Cite(ctx) == [file |-> Variable("__FILE__", ctx), line |-> Variable("__LINE__", ctx)]

ExpressionError == Exception("ExpressionError", <<"Division by zero">>)

\* a catch block that adds the place to every exception it sees
RethrownWithPlace(e, ctx) == [e EXCEPT !.at = Append(@, Cite(ctx))]

\* the catch block of _execute: what it throws for the exception e caught
\* with the frame's context ctx
Rethrown(e, ctx) ==
  IF e.kind = "ExpressionError"
  THEN [e EXCEPT !.kind = "ExpressionEvaluationError", !.at = Append(@, Cite(ctx))]
  ELSE IF e.kind = "SourceReadingError"
  THEN [e EXCEPT !.kind = "SourceInclusionError", !.at = Append(@, Cite(ctx))]
  ELSE e

\* ---------------------------------------------------------------- buffers

\* An output buffer: its chunks and its lastOutputFile property (undefined
\* until a line control statement is pushed).  A chunk is its text; control
\* marks a line control statement, and file, path, line say which context
\* pushed the chunk.
NewBuffer == [chunks |-> <<>>, lastOutputFile |-> Null]

Chunk(text, control, ctx) ==
  [text |-> text, control |-> control, file |-> Variable("__FILE__", ctx),
   path |-> Variable("__PATH__", ctx), line |-> Variable("__LINE__", ctx)]

RECURSIVE Join(_)
\* buffer.join('')
Join(chunks) ==
  IF chunks = <<>> THEN <<>> ELSE Head(chunks).text \o Join(Tail(chunks))

\* url.parse(path).protocol is set
HasProtocol(path) == path \in {"github:u/r/lib", "github:u/r/lib2", "github:u/r/cyc"}

\* path.join(path, file)
PathJoin(path, file) == IF path = "" THEN <<file>> ELSE <<path, "/", file>>

\* the source a line control statement names
SourceName(ctx) ==
  LET path == ctx["__PATH__"].s
      file == ctx["__FILE__"].s
  IN  IF HasProtocol(path) THEN <<path, "/", file>> ELSE PathJoin(path, file)

\* #line <line> "<source>"\n
LineControl(ctx) ==
  <<"#line ">> \o StringOf(ctx["__LINE__"]) \o <<" \"">> \o SourceName(ctx)
    \o <<"\"", NL>>

\* _out detects a file switch
FileSwitch(buffer, ctx) == buffer.lastOutputFile # ctx["__FILE__"]

\* _out generates a line control statement
GeneratesLineControl(enabled, buffer, ctx) ==
  /\ enabled
  /\ ~Truthy(Variable("__INLINE__", ctx))
  /\ FileSwitch(buffer, ctx)

\* an _out that pushes nothing
OutNothing(output, ctx, buffer, enabled) == buffer

\* an _out that replaces what the buffer holds
OutOverwriting(output, ctx, buffer, enabled) ==
  [buffer EXCEPT !.chunks = <<Chunk(output, FALSE, ctx)>>]

\* _out(output, context, buffer) with the machine's setting: the buffer after
Out(output, ctx, buffer, enabled) ==
  IF GeneratesLineControl(enabled, buffer, ctx)
  THEN [chunks |-> buffer.chunks \o <<Chunk(LineControl(ctx), TRUE, ctx),
                                      Chunk(output, FALSE, ctx)>>,
        lastOutputFile |-> ctx["__FILE__"]]
  ELSE [buffer EXCEPT !.chunks = Append(@, Chunk(output, FALSE, ctx))]

\* text.replace(/(\r\n|\n)$/, '')
TrimNewline(text) ==
  IF Len(text) >= 2 /\ text[Len(text) - 1] = "\r" /\ text[Len(text)] = NL
  THEN SubSeq(text, 1, Len(text) - 2)
  ELSE IF Len(text) >= 1 /\ text[Len(text)] = NL
  THEN SubSeq(text, 1, Len(text) - 1)
  ELSE text

\* a _trimLastLine that trims nothing
TrimNothing(buffer) == buffer

\* _trimLastLine(buffer): the buffer after
TrimLastLine(buffer) ==
  IF Len(buffer.chunks) > 0
  THEN [buffer EXCEPT !.chunks[Len(buffer.chunks)].text = TrimNewline(@)]
  ELSE buffer

\* ------------------------------------------------------------------ state

VARIABLES
  \* the machine's generateLineControlStatements setting
  generateLineControlStatements,
  \* parser.file
  parserFile,
  \* _macros, _depth, _includedSources, _globalContext
  macros, depth, includedSources, globalContext,
  \* "idle": no execute call is running; "running": the top frame of the
  \* stack evaluates its instructions; "throwing": an exception travels up
  status,
  \* the source given to the running (or last) execute call
  source,
  \* the _execute frames, the innermost last
  stack,
  \* the output buffers: the buffer of the running (or last) execute call
  \* first, then the fresh buffer of each expression-level macro call in
  \* progress
  buffers,
  \* the exception travelling up
  exc,
  \* how the last execute call ended
  result,
  \* the fileCache.read calls of the running (or last) execute call
  reads,
  \* the messages written with console.error
  console,
  \* history: the instructions the running (or last) execute call has
  \* evaluated, in order
  trace,
  \* history: the source given to the execute call before the running (or
  \* last) one
  previous

vars ==
  <<generateLineControlStatements, parserFile, macros, depth, includedSources,
    globalContext, status, source, stack, buffers, exc, result, reads, console,
    trace, previous>>

\* the machine's file and path properties
MachineFile == "main"
MachinePath == ""

\* _builtinFunctions
BuiltinFunctions == Bind("include", BuiltinFn("include"))

\* machine.globals
Globals == EmptyContext

NoMacros == [name \in {} |-> 0]

Pending == [state |-> "pending", output |-> <<>>, error |-> NoException]
Returned(output) == [state |-> "returned", output |-> output, error |-> NoException]
Thrown(e) == [state |-> "thrown", output |-> <<>>, error |-> e]

\* An _execute frame: the AST it walks, the index pc of the instruction it is
\* at, its context variable, the buffer it writes to, the index variable of
\* the loop it is running, and which call made it.
Frame(ast, context, buffer, kind) ==
  [ast |-> ast, pc |-> 1, context |-> context, buffer |-> buffer, index |-> 0,
   kind |-> kind]

Top == stack[Len(stack)]
Instruction == Top.ast[Top.pc]

\* the context of the loop body of _execute for the instruction at pc
Context == MergeContexts(Top.context, Bind("__LINE__", Num(Instruction.line)))

\* this._mergeContexts(this._globalContext, context)
EvalContext == MergeContexts(globalContext, Context)

\* the stack with the top frame's context assigned
WithContext(stk, ctx) == [stk EXCEPT ![Len(stk)].context = ctx]

\* the stack with the top frame at its next instruction
Advance(stk) == [stk EXCEPT ![Len(stk)].pc = @ + 1, ![Len(stk)].index = 0]

\* the handler returns and the frame goes on
Continue ==
  /\ status' = "running"
  /\ stack' = Advance(WithContext(stack, Context))
  /\ UNCHANGED <<depth, exc>>

\* a machine that swallows what a handler throws and goes on
Swallowed(e) == Continue

\* the handler throws e
Throw(e) ==
  /\ status' = "throwing"
  /\ exc' = e
  /\ stack' = WithContext(stack, Context)
  /\ UNCHANGED depth

\* a machine that refuses one frame early
DepthReachedEarly(d) == d = MAX_EXECUTION_DEPTH - 1

\* a machine that never refuses
DepthReachedNever(d) == FALSE

\* _execute refuses to go deeper
DepthReached(d) == d = MAX_EXECUTION_DEPTH

MaxExecutionDepthReachedError(ctx) ==
  [Exception("MaxExecutionDepthReachedError", <<"Maximum execution depth reached">>)
     EXCEPT !.at = <<Cite(ctx)>>]

\* the handler calls _execute(ast, context, buffer): up to the first
\* instruction of the new frame
Enter(frame) ==
  IF DepthReached(depth)
  THEN /\ status' = "throwing"
       /\ exc' = MaxExecutionDepthReachedError(frame.context)
       /\ stack' = WithContext(stack, Context)
       /\ UNCHANGED depth
  ELSE /\ status' = "running"
       /\ depth' = depth + 1
       /\ stack' = Append(WithContext(stack, Context), frame)
       /\ UNCHANGED exc

\* --------------------------------------------------------------- handlers

Min(a, b) == IF a <= b THEN a ELSE b

\* the parameters _includeMacro binds for a macro with the given parameter
\* names called with args
BoundParameters(params, args) == {params[i] : i \in 1..Min(Len(params), Len(args))}

\* a machine whose macro bodies see the file and path of the caller
MacroContextOfCaller(def, args) ==
  [x \in BoundParameters(def.args, args) |->
     args[CHOOSE i \in 1..Min(Len(def.args), Len(args)) :
            /\ def.args[i] = x
            /\ \A j \in (i + 1)..Min(Len(def.args), Len(args)) : def.args[j] # x]]

\* macroContext of _includeMacro: the bound parameters and the file and path
\* the macro is defined in
MacroContext(def, args) ==
  [x \in BoundParameters(def.args, args) \cup {"__FILE__", "__PATH__"} |->
     IF x = "__FILE__" THEN def.file
     ELSE IF x = "__PATH__" THEN def.path
     ELSE args[CHOOSE i \in 1..Min(Len(def.args), Len(args)) :
                 /\ def.args[i] = x
                 /\ \A j \in (i + 1)..Min(Len(def.args), Len(args)) : def.args[j] # x]]

\* _includeMacro(macro, context, buffer)
IncludeMacro(name, args, ctx, buffer, kind) ==
  Enter(Frame(macros[name].body,
              MergeContexts(ctx, MacroContext(macros[name], args)),
              buffer, kind))

\* the values of the arguments of a call
Arguments(expr, ctx) ==
  [i \in DOMAIN expr.args |->
     IF expr.args[i].e = "var" THEN Variable(expr.args[i].name, ctx)
     ELSE expr.args[i].v]

\* Expression.parseMacroCall finds a call of a declared macro
IsMacroCall(expr, table) == expr.e = "call" /\ expr.name \in DOMAIN table

\* a machine whose once flag skips nothing
SkipsNothing(once, includePath, included) == FALSE

\* the once flag skips a source already included
Skips(once, includePath, included) == once /\ includePath \in included

\* a machine that does not store the sources it includes
IncludedNothing(included, includePath) == included

\* a machine that remembers only the source it included last
IncludedLast(included, includePath) == {includePath}

\* a source inclusion adds its reference to _includedSources
Included(included, includePath) == included \cup {includePath}

\* _getReader finds a reader (readers is {github: GithubReader})
HasReader(src) == Supports(src)

\* _includeSource(instruction.value, context, buffer, instruction.once)
IncludeSource ==
  LET r == Evaluate(Instruction.value, EvalContext)
      includePath == Trim(r.v.s)
  IN  IF r.tag = "error"
      THEN /\ Throw(ExpressionError)
           /\ UNCHANGED <<parserFile, includedSources, reads>>
      ELSE IF r.v.k # "str"
      THEN /\ Throw(Exception("TypeError", <<"trim is not a function">>))
           /\ UNCHANGED <<parserFile, includedSources, reads>>
      ELSE IF Skips(Instruction.once, includePath, includedSources)
      THEN /\ Continue
           /\ UNCHANGED <<parserFile, includedSources, reads>>
      ELSE IF ~HasReader(includePath)
      THEN /\ Throw(Exception("Error", <<"Source \"", includePath, "\" is not supported">>))
           /\ UNCHANGED <<parserFile, includedSources, reads>>
      ELSE \E child \in ChildResultsFor(includePath) :
             LET res == Read(includePath, child)
                 includePathParsed == ParsePath(includePath)
             IN  /\ reads' = Append(reads, [ref |-> includePath,
                                            once |-> Instruction.once])
                 /\ IF ~res.ok
                    THEN /\ Throw(Exception(res.kind, <<res.message>>))
                         /\ UNCHANGED <<parserFile, includedSources>>
                    ELSE /\ parserFile' = includePathParsed["__FILE__"].s
                         /\ includedSources' = Included(includedSources, includePath)
                         /\ Enter(Frame(Parse(res.content, 1),
                                        MergeContexts(Context, includePathParsed),
                                        Top.buffer, "source"))

\* _executeInclude
ExecuteInclude ==
  /\ UNCHANGED <<macros, globalContext, buffers, console>>
  /\ IF IsMacroCall(Instruction.value, macros)
     THEN /\ IncludeMacro(Instruction.value.name,
                          Arguments(Instruction.value, EvalContext),
                          Context, Top.buffer, "macro")
          /\ UNCHANGED <<parserFile, includedSources, reads>>
     ELSE IncludeSource

\* the callable of a macro, called by the evaluation of an Output
\* instruction's expression: up to the first instruction of the macro body
CallMacro(name, args) ==
  /\ buffers' = Append(buffers, NewBuffer)
  /\ IncludeMacro(name, args, MergeContexts(Context, Bind("__INLINE__", Bool(TRUE))),
                  Len(buffers) + 1, "inline")

\* _executeOutput
ExecuteOutput ==
  LET r == IF Instruction.computed THEN Value(TextStr(Instruction.text))
           ELSE Evaluate(Instruction.value, EvalContext)
  IN  /\ UNCHANGED <<macros, globalContext, parserFile, includedSources, reads,
                     console>>
      /\ CASE r.tag = "value" ->
                /\ buffers' = [buffers EXCEPT ![Top.buffer] =
                                 Out(StringOf(r.v), Context, @,
                                     generateLineControlStatements)]
                /\ Continue
           [] r.tag = "error" -> Throw(ExpressionError) /\ UNCHANGED buffers
           [] r.tag = "call" -> CallMacro(r.name, r.args)

\* a machine whose assignments are lost
AssignedNothing(global, variable, v) == global

\* the context _executeSet assigns the variable in
Assigned(global, variable, v) == MergeContexts(global, Bind(variable, v))

\* _executeSet
ExecuteSet ==
  LET r == Evaluate(Instruction.value, EvalContext)
  IN  /\ UNCHANGED <<macros, buffers, parserFile, includedSources, reads, console>>
      /\ CASE r.tag = "value" ->
                /\ globalContext' = Assigned(globalContext, Instruction.variable, r.v)
                /\ Continue
           [] r.tag = "error" -> Throw(ExpressionError) /\ UNCHANGED globalContext

\* _executeError
ExecuteError ==
  LET r == Evaluate(Instruction.value, EvalContext)
  IN  /\ UNCHANGED <<macros, globalContext, buffers, parserFile, includedSources,
                     reads, console>>
      /\ CASE r.tag = "value" -> Throw(Exception("UserDefinedError", StringOf(r.v)))
           [] r.tag = "error" -> Throw(ExpressionError)

\* _executeWarning
ExecuteWarning ==
  LET r == Evaluate(Instruction.value, EvalContext)
  IN  /\ UNCHANGED <<macros, globalContext, buffers, parserFile, includedSources,
                     reads>>
      /\ CASE r.tag = "value" -> console' = Append(console, StringOf(r.v)) /\ Continue
           [] r.tag = "error" -> Throw(ExpressionError) /\ UNCHANGED console

\* What _executeConditional does up to the body it executes: it throws
\* ("error"), executes a body ("execute": branch 0 is the consequent, branch i
\* the consequent of the i-th elseif, branch -1 the alternate) or executes
\* nothing ("skip"); tests counts the tests evaluated.
Outcome(tag, ast, branch, tests) ==
  [tag |-> tag, ast |-> ast, branch |-> branch, tests |-> tests]

RECURSIVE Elseifs(_, _, _)
\* the loop over instruction.elseifs from the i-th on: each is executed as a
\* Conditional of its own, and the first with a truthy test ends the chain
Elseifs(elseifs, i, ctx) ==
  IF i > Len(elseifs) THEN Outcome("skip", <<>>, 0, i - 1)
  ELSE LET test == Evaluate(elseifs[i].test, ctx)
       IN  IF test.tag = "error" THEN Outcome("error", <<>>, i, i)
           ELSE IF Truthy(test.v) THEN Outcome("execute", elseifs[i].consequent, i, i)
           ELSE Elseifs(elseifs, i + 1, ctx)

\* a machine that takes no notice of the elseifs
ConditionalWithoutElseifs(instruction, ctx) ==
  LET test == Evaluate(instruction.test, ctx)
  IN  IF test.tag = "error" THEN Outcome("error", <<>>, 0, 1)
      ELSE IF Truthy(test.v) THEN Outcome("execute", instruction.consequent, 0, 1)
      ELSE IF instruction.hasAlternate
      THEN Outcome("execute", instruction.alternate, -1, 1)
      ELSE Outcome("skip", <<>>, 0, 1)

\* _executeConditional(instruction, context, buffer) up to the body
Conditional(instruction, ctx) ==
  LET test == Evaluate(instruction.test, ctx)
      rest == Elseifs(instruction.elseifs, 1, ctx)
  IN  IF test.tag = "error" THEN Outcome("error", <<>>, 0, 1)
      ELSE IF Truthy(test.v) THEN Outcome("execute", instruction.consequent, 0, 1)
      ELSE IF rest.tag # "skip" THEN [rest EXCEPT !.tests = @ + 1]
      ELSE IF instruction.hasAlternate
      THEN Outcome("execute", instruction.alternate, -1, rest.tests + 1)
      ELSE Outcome("skip", <<>>, 0, rest.tests + 1)

\* _executeConditional
ExecuteConditional ==
  LET c == Conditional(Instruction, EvalContext)
  IN  /\ UNCHANGED <<macros, globalContext, buffers, parserFile, includedSources,
                     reads, console>>
      /\ CASE c.tag = "error" -> Throw(ExpressionError)
           [] c.tag = "execute" -> Enter(Frame(c.ast, Context, Top.buffer, "branch"))
           [] c.tag = "skip" -> Continue

\* the break condition of _executeLoop
Breaks(kind, test, index) ==
  \/ kind = "while" /\ ~Truthy(test)
  \/ kind = "repeat" /\ test.k = "num" /\ test.n = index

\* _executeLoop: one turn of its while (true), up to the first instruction of
\* the body
ExecuteLoop ==
  LET r == Evaluate(Instruction.value, EvalContext)
  IN  /\ UNCHANGED <<macros, globalContext, buffers, parserFile, includedSources,
                     reads, console>>
      /\ IF r.tag = "error" THEN Throw(ExpressionError)
         ELSE IF Breaks(Instruction.kind, r.v, Top.index) THEN Continue
         ELSE /\ Top.index < MaxIterations
              /\ Enter(Frame(Instruction.body,
                             MergeContexts(Context, Bind("loop", LoopObj(Top.index))),
                             Top.buffer, "loop"))

\* a machine that saves a macro without the place of its declaration
MacroWithoutPlace(instruction, ctx) ==
  [file |-> Null, path |-> Null, line |-> Null,
   args |-> instruction.declaration.args, body |-> instruction.body]

\* the macro _executeMacro saves
MacroDefinition(instruction, ctx) ==
  [file |-> Variable("__FILE__", ctx), path |-> Variable("__PATH__", ctx),
   line |-> Variable("__LINE__", ctx), args |-> instruction.declaration.args,
   body |-> instruction.body]

\* the macro table with name declared as def
Declared(table, name, def) ==
  [x \in DOMAIN table \cup {name} |-> IF x = name THEN def ELSE table[x]]

MacroIsAlreadyDeclared(name, def, ctx) ==
  [Exception("MacroIsAlreadyDeclared", <<name>>)
     EXCEPT !.declared = <<[file |-> def.file, line |-> def.line]>>,
            !.at = <<Cite(ctx)>>]

\* _executeMacro
ExecuteMacro ==
  LET name == Instruction.declaration.name
  IN  /\ UNCHANGED <<buffers, parserFile, includedSources, reads, console>>
      /\ IF name \in DOMAIN macros
         THEN /\ Throw(MacroIsAlreadyDeclared(name, macros[name], Context))
              /\ UNCHANGED <<macros, globalContext>>
         ELSE /\ macros' = Declared(macros, name, MacroDefinition(Instruction, Context))
              /\ globalContext' = Assigned(globalContext, name, MacroFn(name))
              /\ Continue

\* ---------------------------------------------------------------- sources

\* the lines a generated main source is made of
Pool ==
  {Line(<<"t", NL>>),
   IncludeLine(ELit(Str(RefA)), FALSE),
   IncludeLine(ELit(Str(RefA)), TRUE),
   IncludeLine(ELit(Str(RefA2)), FALSE),
   IncludeLine(ELit(Str(RefN)), FALSE),
   IncludeLine(ELit(Str(RefD)), FALSE),
   IncludeLine(ELit(Str(RefE)), FALSE),
   IncludeLine(ELit(Str(RefF)), FALSE),
   IncludeLine(ELit(Str(RefV)), FALSE),
   IncludeLine(ELit(Str(RefLocal)), FALSE),
   IncludeLine(ECall("M", <<ELit(Num(1))>>), FALSE),
   SetLine("v", ELit(Num(1))),
   SetLine("q", ELit(Num(7))),
   SetLine("M", ELit(Num(5))),
   TextLine(<<Inline(EVar("v")), Lit(<<NL>>)>>),
   TextLine(<<Inline(ECall("M", <<ELit(Num(1)), ELit(Num(2)), ELit(Num(3))>>)),
              Lit(<<NL>>)>>),
   ErrorLine(ELit(Str("boom"))),
   WarningLine(ELit(Str("careful"))),
   MacroLines("M", <<"p", "q">>,
     <<TextLine(<<Lit(<<"m">>), Inline(EVar("p")), Lit(<<NL>>)>>)>>),
   IfLines(EVar("v"), <<TextLine(<<Inline(EVar("v")), Lit(<<NL>>)>>)>>,
           <<ElseIf(EVar("q"), <<Line(<<"z", NL>>)>>)>>, TRUE, <<Line(<<"n", NL>>)>>),
   RepeatLines(ELit(Num(2)),
     <<TextLine(<<Inline(ELoopIndex), Inline(EVar("v")), Lit(<<NL>>)>>)>>)}

\* a source that sets p and q and includes the declaration of macro M(p, q)
Prelude ==
  <<SetLine("p", ELit(Num(7))), SetLine("q", ELit(Num(7))),
    IncludeLine(ELit(Str(RefD)), FALSE)>>

\* a loop whose body declares a macro
LoopDeclaring ==
  <<RepeatLines(ELit(Num(2)), <<MacroLines("L", <<>>, <<Line(<<"l", NL>>)>>)>>)>>

\* the include directives of the sources made of includes only
IncludePool ==
  {IncludeLine(ELit(Str(ref)), once) : ref \in {RefA, RefB, RefC}, once \in BOOLEAN}

RECURSIVE Sources(_, _)
\* the sources of 1 to n lines of a pool
Sources(pool, n) ==
  IF n = 0 THEN {}
  ELSE LET shorter == Sources(pool, n - 1)
       IN  {<<l>> : l \in pool} \cup shorter
             \cup {Append(src, l) : src \in shorter, l \in pool}

RECURSIVE Texts(_)
\* the texts of at most n characters
Texts(n) ==
  IF n = 0 THEN {<<>>}
  ELSE Texts(n - 1) \cup {Append(t, c) : t \in Texts(n - 1), c \in {"a", NL}}

RECURSIVE Lines(_, _)
\* the lines of a directive-free text, each with its terminator: line is the
\* beginning of the line being scanned
Lines(text, line) ==
  IF text = <<>> THEN (IF line = <<>> THEN <<>> ELSE <<Line(line)>>)
  ELSE IF Head(text) = NL
  THEN <<Line(Append(line, NL))>> \o Lines(Tail(text), <<>>)
  ELSE Lines(Tail(text), Append(line, Head(text)))

\* the source of the test "should handle include-once corectly #1"
IncludeOnceTest ==
  <<IncludeLine(ELit(Str(RefA)), FALSE), IncludeLine(ELit(Str(RefB)), TRUE),
    IncludeLine(ELit(Str(RefA)), TRUE), IncludeLine(ELit(Str(RefB)), TRUE),
    IncludeLine(ELit(Str(RefC)), TRUE)>>

\* the source of the test "should handle include-once corectly #2", after a
\* line of text
IncludeOnceTest2 ==
  <<Line(<<"t", NL>>), IncludeLine(ELit(Str(RefP)), TRUE),
    IncludeLine(ELit(Str(RefP)), TRUE)>>

\* an @if whose test is null and whose @elseif, two lines below, divides
\* by zero
ElseifFailing ==
  <<IfLines(EVar("v"), <<Line(<<"a", NL>>)>>,
            <<ElseIf(EDivZero, <<Line(<<"b", NL>>)>>)>>, FALSE, <<>>)>>

\* q is set, and a chain follows whose @if test (v) is null, whose first
\* @elseif tests q and whose second @elseif divides by zero
ShortCircuit ==
  <<SetLine("q", ELit(Num(7))),
    IfLines(EVar("v"), <<Line(<<"a", NL>>)>>,
            <<ElseIf(EVar("q"), <<Line(<<"z", NL>>)>>),
              ElseIf(EDivZero, <<Line(<<"b", NL>>)>>)>>,
            TRUE, <<Line(<<"n", NL>>)>>),
    Line(<<"t", NL>>)>>

\* a chain without @else none of whose tests is truthy
NoBranch ==
  <<IfLines(EVar("v"), <<Line(<<"a", NL>>)>>,
            <<ElseIf(EVar("q"), <<Line(<<"z", NL>>)>>),
              ElseIf(EVar("p"), <<Line(<<"b", NL>>)>>)>>,
            FALSE, <<>>),
    Line(<<"t", NL>>)>>

\* a repeat loop whose count is negative
RepeatNegative ==
  <<RepeatLines(ELit(Num(-1)), <<SetLine("v", ELit(Num(1)))>>), Line(<<"t", NL>>)>>

\* a repeat loop of one turn more than the depth limit
RepeatLong ==
  <<RepeatLines(ELit(Num(MAX_EXECUTION_DEPTH + 1)), <<SetLine("v", ELit(Num(1)))>>),
    Line(<<"t", NL>>)>>

\* Sources that call a macro in an expression: the body of T emits a line
\* and includes z.builder, whose only chunk is an empty string; N has a
\* parameter named __INLINE__ and is called with 0.
InlineCases ==
  {<<MacroLines("T", <<>>, <<Line(<<"a", NL>>), IncludeLine(ELit(Str(RefZ)), FALSE)>>),
     TextLine(<<Inline(ECall("T", <<>>)), Lit(<<NL>>)>>)>>,
   <<MacroLines("N", <<"__INLINE__">>, <<Line(<<"n", NL>>)>>),
     TextLine(<<Inline(ECall("N", <<ELit(Num(0))>>)), Lit(<<NL>>)>>)>>}

\* Sources all of whose include directives carry the once flag, without
\* macros and loops: inclusions that come back to a source already
\* included, and the ring of sixteen files.
OnceSources ==
  {<<IncludeLine(ELit(Str(RefS)), TRUE), Line(<<"t", NL>>)>>,
   <<IncludeLine(ELit(Str(RefO)), TRUE), IncludeLine(ELit(Str(RefS)), TRUE)>>,
   <<IncludeLine(ELit(Str(Ring[1].ref)), TRUE), Line(<<"t", NL>>)>>}

\* sources that include themselves without end: RefX and RefY include each
\* other, and the body of macro R includes R
CyclicSources ==
  {<<IncludeLine(ELit(Str(RefX)), FALSE)>>,
   <<MacroLines("R", <<>>, <<IncludeLine(ELit(Str(RefA)), FALSE),
                             IncludeLine(ECall("R", <<>>), FALSE)>>),
     IncludeLine(ECall("R", <<>>), FALSE)>>}

\* a source that declares macro M, sets v and includes RefA once
Declaring ==
  <<MacroLines("M", <<"p", "q">>,
      <<TextLine(<<Lit(<<"m">>), Inline(EVar("p")), Lit(<<NL>>)>>)>>),
    SetLine("v", ELit(Num(1))),
    IncludeLine(ELit(Str(RefA)), TRUE)>>

\* a source that fails in a nested frame: it declares M, sets v, includes
\* RefA once and then e.builder, which divides by zero
FailingMidway == Declaring \o <<IncludeLine(ELit(Str(RefE)), FALSE)>>

\* the sources the first execute call of a machine that is called again is
\* given
EarlierPrograms ==
  Sources(Pool, 1) \cup CyclicSources \cup {Declaring, FailingMidway}

\* a source that reads v and then declares M, sets v and includes RefA once
DeclaringAgain == <<TextLine(<<Inline(EVar("v")), Lit(<<NL>>)>>)>> \o Declaring

\* the sources a later execute call of the same machine is given
LaterPrograms ==
  {<<Line(<<"t", NL>>)>>,
   <<IncludeLine(ELit(Str(RefA)), TRUE)>>,
   <<IncludeLine(ELit(Str(RefB)), FALSE)>>,
   DeclaringAgain}

\* the sources execute is called with
Programs ==
  Sources(Pool, MaxLen) \cup Sources(IncludePool, MaxIncludes)
    \cup {Lines(text, <<>>) : text \in Texts(MaxText)} \cup CyclicSources
    \cup {Prelude \o src : src \in Sources(Pool, 1)}
    \cup {LoopDeclaring, IncludeOnceTest, IncludeOnceTest2, ElseifFailing,
          ShortCircuit, NoBranch, RepeatNegative, RepeatLong}
    \cup InlineCases \cup OnceSources

\* ---------------------------------------------------------------- actions

Init ==
  /\ generateLineControlStatements = FALSE
  /\ parserFile = ""
  /\ macros = NoMacros
  /\ depth = 0
  /\ includedSources = {}
  /\ globalContext = EmptyContext
  /\ status = "idle"
  /\ source = <<>>
  /\ stack = <<>>
  /\ buffers = <<>>
  /\ exc = NoException
  /\ result = Pending
  /\ reads = <<>>
  /\ console = <<>>
  /\ trace = <<>>
  /\ previous = <<>>

\* machine.generateLineControlStatements = value, between execute calls
Configure ==
  /\ status = "idle"
  /\ generateLineControlStatements' = ~generateLineControlStatements
  /\ UNCHANGED <<parserFile, macros, depth, includedSources, globalContext, status,
                 source, stack, buffers, exc, result, reads, console, trace,
                 previous>>

\* the context execute starts from
InitialContext ==
  MergeContexts(
    MergeContexts(
      [x \in {"__FILE__", "__PATH__"} |->
         IF x = "__FILE__" THEN Str(MachineFile) ELSE Str(MachinePath)],
      BuiltinFunctions),
    Globals)

\* a machine whose execute does not call _reset
CallWithoutReset(src) ==
  /\ source' = src
  /\ stack' = <<Frame(Parse(src, 1), InitialContext, 1, "main")>>
  /\ depth' = depth + 1
  /\ status' = "running"
  /\ buffers' = <<NewBuffer>>
  /\ exc' = NoException
  /\ result' = Pending
  /\ reads' = <<>>
  /\ console' = <<>>
  /\ trace' = <<>>
  /\ previous' = source
  /\ UNCHANGED <<generateLineControlStatements, parserFile, macros, includedSources,
                 globalContext>>

\* execute(source): _reset, the parse and _execute up to the first instruction
Call(src) ==
  /\ source' = src
  /\ stack' = <<Frame(Parse(src, 1), InitialContext, 1, "main")>>
  /\ macros' = NoMacros
  /\ depth' = 1
  /\ includedSources' = {}
  /\ globalContext' = EmptyContext
  /\ status' = "running"
  /\ buffers' = <<NewBuffer>>
  /\ exc' = NoException
  /\ result' = Pending
  /\ reads' = <<>>
  /\ console' = <<>>
  /\ trace' = <<>>
  /\ previous' = source
  /\ UNCHANGED <<generateLineControlStatements, parserFile>>

\* the first execute call of the machine
Execute ==
  /\ status = "idle"
  /\ result.state = "pending"
  /\ \E src \in Programs : Call(src)

\* a later execute call of the same machine
ExecuteAgain ==
  /\ status = "idle"
  /\ result.state # "pending"
  /\ \E src \in LaterPrograms : Call(src)

\* The calls of expression.evaluate the handler of the instruction at pc
\* makes, each with the _line of the instruction whose expression it evaluates
\* and the __LINE__ of the context it is given: one for the operand of the
\* instruction, none for a text Output and for a Macro, and for a Conditional
\* one for its test and one for the test of each elseif it comes to.
Evaluations ==
  LET given == Variable("__LINE__", EvalContext)
  IN  CASE Instruction.type = INSTRUCTIONS.CONDITIONAL ->
             [i \in 1..Conditional(Instruction, EvalContext).tests |->
                [line |-> IF i = 1 THEN Instruction.line
                          ELSE Instruction.elseifs[i - 1].line,
                 context |-> given]]
        [] Instruction.type = INSTRUCTIONS.MACRO -> <<>>
        [] Instruction.type = INSTRUCTIONS.OUTPUT /\ Instruction.computed -> <<>>
        [] OTHER -> <<[line |-> Instruction.line, context |-> given]>>

\* the entry of the history for the instruction at pc: its type and _line,
\* the __FILE__ and __PATH__ of the context it is evaluated in, the number of
\* frames on the stack, for a Set instruction that assigns and a Macro
\* instruction that declares, the name and the value stored under it, and
\* the evaluations its handler makes
Evaluated ==
  LET stores ==
        CASE Instruction.type = INSTRUCTIONS.SET ->
               Evaluate(Instruction.value, EvalContext).tag = "value"
          [] Instruction.type = INSTRUCTIONS.MACRO ->
               Instruction.declaration.name \notin DOMAIN macros
          [] OTHER -> FALSE
  IN  [type |-> Instruction.type, line |-> Instruction.line,
       file |-> Variable("__FILE__", Context), path |-> Variable("__PATH__", Context),
       frames |-> Len(stack),
       evaluations |-> Evaluations,
       stores |-> stores,
       name |-> CASE Instruction.type = INSTRUCTIONS.SET -> Instruction.variable
                  [] Instruction.type = INSTRUCTIONS.MACRO -> Instruction.declaration.name
                  [] OTHER -> "",
       v |-> CASE ~stores -> Null
               [] Instruction.type = INSTRUCTIONS.SET ->
                    Evaluate(Instruction.value, EvalContext).v
               [] OTHER -> MacroFn(Instruction.declaration.name)]

\* one turn of the loop of _execute: the instruction at pc is evaluated
Step ==
  /\ status = "running"
  /\ Top.pc <= Len(Top.ast)
  /\ UNCHANGED <<generateLineControlStatements, source, result, previous>>
  /\ trace' = Append(trace, Evaluated)
  /\ CASE Instruction.type = INSTRUCTIONS.INCLUDE -> ExecuteInclude
       [] Instruction.type = INSTRUCTIONS.OUTPUT -> ExecuteOutput
       [] Instruction.type = INSTRUCTIONS.SET -> ExecuteSet
       [] Instruction.type = INSTRUCTIONS.CONDITIONAL -> ExecuteConditional
       [] Instruction.type = INSTRUCTIONS.ERROR -> ExecuteError
       [] Instruction.type = INSTRUCTIONS.WARNING -> ExecuteWarning
       [] Instruction.type = INSTRUCTIONS.MACRO -> ExecuteMacro
       [] Instruction.type = INSTRUCTIONS.LOOP -> ExecuteLoop

\* a machine whose frames do not give back the depth they took
LeftOpen(d) == d

\* this._depth-- at the end of _execute
Left(d) == d - 1

\* a machine whose nested frame writes its context into the caller's
CallersAliased ==
  IF Len(stack) = 1 THEN <<>>
  ELSE [SubSeq(stack, 1, Len(stack) - 1) EXCEPT ![Len(stack) - 1].context = Top.context]

\* the frames below the top one, the caller's frame last
Callers == SubSeq(stack, 1, Len(stack) - 1)

\* The loop of _execute is over: _depth--, and the frame returns to the call
\* that made it.  execute joins the buffer; the callable of a macro trims and
\* joins its buffer, and the Output instruction that evaluated the call emits
\* the string; a loop goes to its next turn; every other handler returns.
Return ==
  /\ status = "running"
  /\ Top.pc > Len(Top.ast)
  /\ depth' = Left(depth)
  /\ stack' = CASE Top.kind = "main" -> <<>>
                [] Top.kind = "loop" ->
                     [Callers EXCEPT ![Len(Callers)].index = @ + 1]
                [] OTHER -> Advance(Callers)
  /\ buffers' = CASE Top.kind = "inline" ->
                       LET caller == Callers[Len(Callers)]
                           string == TextStr(Join(TrimLastLine(buffers[Top.buffer]).chunks))
                       IN  [SubSeq(buffers, 1, Len(buffers) - 1)
                              EXCEPT ![caller.buffer] =
                                Out(StringOf(string), caller.context, @,
                                    generateLineControlStatements)]
                  [] OTHER -> buffers
  /\ status' = IF Top.kind = "main" THEN "idle" ELSE "running"
  /\ result' = IF Top.kind = "main" THEN Returned(Join(buffers[1].chunks)) ELSE result
  /\ UNCHANGED <<generateLineControlStatements, parserFile, macros, includedSources,
                 globalContext, source, exc, reads, console, trace, previous>>

\* The exception reaches the catch block of the innermost frame, which
\* rethrows it to the frame's caller; out of the outermost frame it leaves
\* execute.
Catch ==
  /\ status = "throwing"
  /\ exc' = Rethrown(exc, Top.context)
  /\ stack' = Callers
  /\ buffers' = IF Len(stack) = 1 THEN buffers
                ELSE SubSeq(buffers, 1, Callers[Len(Callers)].buffer)
  /\ status' = IF Len(stack) = 1 THEN "idle" ELSE "throwing"
  /\ result' = IF Len(stack) = 1 THEN Thrown(Rethrown(exc, Top.context)) ELSE result
  /\ UNCHANGED <<generateLineControlStatements, parserFile, macros, depth,
                 includedSources, globalContext, source, reads, console, trace,
                 previous>>

\* one execute call of a machine just constructed
Next == Configure \/ Execute \/ Step \/ Return \/ Catch

Spec == Init /\ [][Next]_vars

\* the first execute call of the machine, given a cyclic source
ExecuteCyclic ==
  /\ status = "idle"
  /\ result.state = "pending"
  /\ \E src \in CyclicSources : Call(src)

NextCyclic == Configure \/ ExecuteCyclic \/ Step \/ Return \/ Catch

\* One execute call with a cyclic source.  execute is synchronous: once
\* called, the interpreter keeps evaluating, returning and unwinding.
SpecCyclic ==
  Init /\ [][NextCyclic]_vars /\ WF_vars(Step) /\ WF_vars(Return) /\ WF_vars(Catch)

\* the first execute call of a machine that is called again
ExecuteEarlier ==
  /\ status = "idle"
  /\ result.state = "pending"
  /\ \E src \in EarlierPrograms : Call(src)

\* successive execute calls of one machine
NextCalls == Configure \/ ExecuteEarlier \/ ExecuteAgain \/ Step \/ Return \/ Catch

SpecCalls == Init /\ [][NextCalls]_vars

\* ------------------------------------------------------------- properties

\* the top frame is about to evaluate an instruction
Evaluating == status = "running" /\ Top.pc <= Len(Top.ast)

\* the top frame is about to evaluate an Include instruction that is not a
\* macro call and whose operand evaluates to a reference
IncludingSource ==
  /\ Evaluating
  /\ Instruction.type = INSTRUCTIONS.INCLUDE
  /\ ~IsMacroCall(Instruction.value, macros)
  /\ Evaluate(Instruction.value, EvalContext).tag = "value"
  /\ Evaluate(Instruction.value, EvalContext).v.k = "str"

\* the reference the operand evaluates to
Reference == Trim(Evaluate(Instruction.value, EvalContext).v.s)

\* the reads of ref, and those made for an @include once
ReadsOf(ref) == {i \in DOMAIN reads : reads[i].ref = ref}
OnceReadsOf(ref) == {i \in ReadsOf(ref) : reads[i].once}

\* the sources of the repository that emit one chunk
OneLineSources == {RefA, RefB, RefC, RefA2, RefF}

\* the chunks of the buffer of execute that the source ref pushed
ChunksOf(ref) ==
  IF buffers = <<>> THEN {}
  ELSE {i \in DOMAIN buffers[1].chunks :
          /\ ~buffers[1].chunks[i].control
          /\ buffers[1].chunks[i].file = ParsePath(ref)["__FILE__"]
          /\ buffers[1].chunks[i].path = ParsePath(ref)["__PATH__"]}

\* the handler of the instruction at pc does nothing but return
NoOp ==
  /\ status' = "running"
  /\ stack' = Advance(WithContext(stack, Context))
  /\ UNCHANGED <<reads, parserFile, buffers, includedSources, macros,
                 globalContext, depth, console>>

\* an @include once of a reference in the included set is about to be evaluated
IncludingOnceAgain ==
  IncludingSource /\ Instruction.once /\ Reference \in includedSources

\* for every reference, the @include once directives read it at most once;
\* and a one-line source that only @include once directives have read was
\* read once and has pushed at most one chunk
ReadAndEmittedOnce ==
  /\ \A ref \in DOMAIN Repository : Cardinality(OnceReadsOf(ref)) <= 1
  /\ \A ref \in OneLineSources :
       ReadsOf(ref) = OnceReadsOf(ref) =>
         Cardinality(ReadsOf(ref)) <= 1 /\ Cardinality(ChunksOf(ref)) <= 1

\* C1: within one execute call an @include once whose reference is already in
\* the included set is a no-op (nothing is read or parsed, the buffer is left
\* as it is and the frame goes on), so a source that @include once directives
\* name again and again, at any depth, is read and emitted at most once.
IncludeOnceIsNoOp ==
  /\ []ReadAndEmittedOnce
  /\ [][IncludingOnceAgain => NoOp]_vars

\* the main source includes RefN, which includes RefA once, and then includes
\* RefA once itself: the second @include once was skipped
IncludeOnceSkipped ==
  /\ result.state = "returned"
  /\ source = <<IncludeLine(ELit(Str(RefN)), FALSE), IncludeLine(ELit(Str(RefA)), TRUE)>>
  /\ reads = <<[ref |-> RefN, once |-> FALSE], [ref |-> RefA, once |-> TRUE]>>
  /\ Cardinality(ChunksOf(RefA)) = 1

\* the exception of the call, travelling or thrown to the caller of execute
Raised == IF status = "idle" THEN result.error ELSE exc

\* the i-th read of the call failed
ReadFailed(i) ==
  /\ i = Len(reads)
  /\ \/ Raised.kind \in {"SourceReadingError", "SourceInclusionError"}
     \/ Raised = [Raised EXCEPT !.kind = "TypeError",
                                !.message = <<Read(RefF, Killed("ENOENT")).message>>]

\* the references read are the references in the included set, but for a read
\* that failed
PerformedAreIncluded ==
  /\ \A i \in DOMAIN reads : reads[i].ref \in includedSources \/ ReadFailed(i)
  /\ \A ref \in includedSources : ReadsOf(ref) # {}

\* a source made of includes of one-line sources
IsListing(src) ==
  \A i \in DOMAIN src :
    /\ src[i].d = "include"
    /\ src[i].value.e = "lit"
    /\ src[i].value.v.s \in OneLineSources

RECURSIVE Listing(_, _)
\* what the includes of a listing are expected to emit after the references
\* in seen were included: the line of each source, but nothing for an
\* @include once of a reference seen before
Listing(src, seen) ==
  IF src = <<>> THEN <<>>
  ELSE LET ref == Head(src).value.v.s
       IN  IF Head(src).once /\ ref \in seen THEN Listing(Tail(src), seen)
           ELSE Repository[ref].content[1].segs[1].text
                  \o Listing(Tail(src), seen \cup {ref})

\* the chunks of the buffer of execute that are not line control statements
EmittedText ==
  Join(SelectSeq(buffers[1].chunks, LAMBDA chunk : ~chunk.control))

\* a listing that returned has emitted the expected lines
ListingEmitted ==
  result.state = "returned" /\ IsListing(source) =>
    EmittedText = Listing(source, {})

\* the instruction at pc reads a source and executes it, unless the read
\* fails or the frame would be too deep
Performs ==
  /\ reads' = Append(reads, [ref |-> Reference, once |-> Instruction.once])
  /\ \/ status' = "running" /\ Len(stack') = Len(stack) + 1
     \/ status' = "throwing"
          /\ exc'.kind \in {"SourceReadingError", "TypeError",
                           "MaxExecutionDepthReachedError"}

\* a plain @include of a reference in the included set is about to be evaluated
IncludingAgain ==
  IncludingSource /\ ~Instruction.once /\ Reference \in includedSources

\* an @include once of a reference read before is about to be evaluated
IncludingOnceAfterRead ==
  IncludingSource /\ Instruction.once /\ ReadsOf(Reference) # {}

\* C2: every source inclusion that is performed, plain or once, adds its
\* reference to the included set; a plain @include is performed even if its
\* reference is in the set; an @include once evaluated after an earlier
\* inclusion of the same reference emits nothing; so a source made of plain
\* and once includes of one-line sources emits one line per plain include and
\* one line per once-included source not seen before, in first-seen order.
InclusionsAreRecorded ==
  /\ [](PerformedAreIncluded /\ ListingEmitted)
  /\ [][(IncludingAgain => Performs)
         /\ (IncludingOnceAfterRead => UNCHANGED <<buffers, reads>>)]_vars

\* the test source returned a.builder, b.builder and c.builder once each
IncludeOnceTestReturned ==
  /\ source = IncludeOnceTest
  /\ result = Returned(<<"a", NL, "b", NL, "c", NL>>)
  /\ includedSources = {RefA, RefB, RefC}
  /\ Len(reads) = 3

\* the steps of the history that assigned variable with a Set instruction,
\* and those that declared a macro of that name
Assignments(variable) ==
  {i \in DOMAIN trace :
     trace[i].type = INSTRUCTIONS.SET /\ trace[i].name = variable /\ trace[i].stores}
Declarations(name) ==
  {i \in DOMAIN trace :
     trace[i].type = INSTRUCTIONS.MACRO /\ trace[i].name = name /\ trace[i].stores}

Last(steps) == CHOOSE i \in steps : \A j \in steps : j <= i

\* the variables the sources of the model assign
AssignedVariables == {"v", "p", "q", "M"}

\* what an expression evaluated in the frame reads the variable as
ReadsAs(frame, variable) ==
  Variable(variable, MergeContexts(globalContext, frame.context))

Expanding ==
  /\ Evaluating
  /\ \/ /\ Instruction.type = INSTRUCTIONS.INCLUDE
        /\ IsMacroCall(Instruction.value, macros)
     \/ /\ Instruction.type = INSTRUCTIONS.OUTPUT
        /\ ~Instruction.computed
        /\ Evaluate(Instruction.value, EvalContext).tag = "call"

\* the macro expanded and the values of the arguments of the call
Expanded == macros[Instruction.value.name]
Given == Arguments(Instruction.value, EvalContext)

\* the body of the macro is entered
Entered == status' = "running" /\ Len(stack') = Len(stack) + 1

\* what the body frame just entered reads the i-th parameter as
ParameterReadsAs(i) ==
  Variable(Expanded.args[i],
           MergeContexts(globalContext', stack'[Len(stack')].context))

\* the first min(n, k) parameters read as the first min(n, k) arguments
BindsGiven ==
  \A i \in 1..Min(Len(Expanded.args), Len(Given)) : ParameterReadsAs(i) = Given[i]

\* the parameters past the k-th read as Null
MissingReadNull ==
  \A i \in (Len(Given) + 1)..Len(Expanded.args) : ParameterReadsAs(i) = Null

\* C4: a macro with n parameters expanded with k arguments binds its first
\* min(n, k) parameters to the first min(n, k) arguments, ignores the other
\* arguments, and every parameter left unbound reads as Null in the body,
\* whatever the caller's context or the global context hold under its name.
MacroBindsArguments ==
  [][Expanding /\ Entered => BindsGiven /\ MissingReadNull]_vars

\* the step raises MaxExecutionDepthReachedError
RaisesDepthReached ==
  /\ status = "running"
  /\ status' = "throwing"
  /\ exc'.kind = "MaxExecutionDepthReachedError"

\* _depth counts the frames of the running call, never more than 256
DepthBounded ==
  /\ Len(stack) <= MAX_EXECUTION_DEPTH
  /\ depth <= MAX_EXECUTION_DEPTH
  /\ status = "running" => depth = Len(stack)

\* the call that raised MaxExecutionDepthReachedError had 256 frames when it
\* evaluated its last instruction
RaisedAtFullDepth ==
  Raised.kind = "MaxExecutionDepthReachedError" =>
    trace[Len(trace)].frames = MAX_EXECUTION_DEPTH

\* C5: the frames of an execute call never nest deeper than 256;
\* MaxExecutionDepthReachedError is raised by the instruction that would
\* enter the 257th frame, and by no instruction evaluated with fewer than 256
\* frames on the stack.
DepthLimit ==
  /\ [](DepthBounded /\ RaisedAtFullDepth)
  /\ [][RaisesDepthReached => Len(stack) = MAX_EXECUTION_DEPTH /\ stack' = WithContext(stack, Context)]_vars

\* the 257th frame has just been refused
FrameRefused ==
  /\ status = "throwing"
  /\ exc.kind = "MaxExecutionDepthReachedError"
  /\ Len(stack) = MAX_EXECUTION_DEPTH
  /\ depth = MAX_EXECUTION_DEPTH

\* execute has thrown MaxExecutionDepthReachedError
DepthReachedThrown ==
  /\ status = "idle"
  /\ result.state = "thrown"
  /\ result.error.kind = "MaxExecutionDepthReachedError"

\* C6: when two sources include each other without once, or the body of a
\* macro includes the macro, and every read succeeds, the execute call never
\* holds more than 256 frames and ends by throwing
\* MaxExecutionDepthReachedError.
CyclicIncludeTerminates ==
  /\ [](Len(stack) <= MAX_EXECUTION_DEPTH)
  /\ (status = "running") ~> DepthReachedThrown

\* the call that included RefX has thrown after RefX and RefY were read 256
\* times in turn
CyclicIncludeThrown ==
  /\ DepthReachedThrown
  /\ source = <<IncludeLine(ELit(Str(RefX)), FALSE)>>
  /\ Len(reads) = MAX_EXECUTION_DEPTH
  /\ \A i \in DOMAIN reads : reads[i].ref = IF i % 2 = 1 THEN RefX ELSE RefY

\* the place (file:line) of a step of the history
PlaceOf(i) == [file |-> trace[i].file, line |-> Num(trace[i].line)]

\* a Macro instruction for a name in the macro table is about to be evaluated
Redeclaring ==
  /\ Evaluating
  /\ Instruction.type = INSTRUCTIONS.MACRO
  /\ Instruction.declaration.name \in DOMAIN macros

\* the exception e is MacroIsAlreadyDeclared for the macro name, citing the
\* place where the history declared it and the place of the last step
CitesBoth(e, name, history) ==
  /\ e.kind = "MacroIsAlreadyDeclared"
  /\ e.message = <<name>>
  /\ \E i \in DOMAIN history :
       /\ history[i].type = INSTRUCTIONS.MACRO
       /\ history[i].name = name
       /\ history[i].stores
       /\ e.declared = <<[file |-> history[i].file, line |-> Num(history[i].line)]>>
  /\ e.at = <<[file |-> history[Len(history)].file,
               line |-> Num(history[Len(history)].line)]>>

\* C7: a Macro instruction evaluated for a name already in the macro table
\* fails with MacroIsAlreadyDeclared citing the file:line of the first
\* declaration and the file:line of the instruction, leaves the macro table
\* and the callable as they were, and the error reaches the caller of
\* execute as raised.
RedeclarationFails ==
  /\ [][Redeclaring =>
          /\ status' = "throwing"
          /\ CitesBoth(exc', Instruction.declaration.name, trace')
          /\ UNCHANGED <<macros, globalContext>>]_vars
  /\ [](Raised.kind = "MacroIsAlreadyDeclared" =>
          CitesBoth(Raised, Raised.message[1], trace))

\* RefD, which declares macro M, was included twice: the second declaration
\* failed citing line 1 of d.builder twice
DeclaredTwice ==
  /\ source = <<IncludeLine(ELit(Str(RefD)), FALSE), IncludeLine(ELit(Str(RefD)), FALSE)>>
  /\ result.state = "thrown"
  /\ result.error.kind = "MacroIsAlreadyDeclared"
  /\ result.error.declared = <<[file |-> Str("d.builder"), line |-> Num(1)]>>
  /\ result.error.at = <<[file |-> Str("d.builder"), line |-> Num(1)]>>
  /\ DOMAIN macros = {"M"}

\* a source without directives and without inline expressions
IsText(src) ==
  \A i \in DOMAIN src :
    src[i].d = "text" /\ \A j \in DOMAIN src[i].segs : src[i].segs[j].lit

RECURSIVE TextOfSegments(_), TextOf(_)
\* the text a directive-free source was written as
TextOfSegments(segs) ==
  IF segs = <<>> THEN <<>> ELSE Head(segs).text \o TextOfSegments(Tail(segs))
TextOf(src) ==
  IF src = <<>> THEN <<>> ELSE TextOfSegments(Head(src).segs) \o TextOf(Tail(src))

\* the frame of execute is about to return
Returning == status = "running" /\ Len(stack) = 1 /\ Top.pc > Len(Top.ast)

\* C8 as stated: for any input without directives execute returns the input,
\* whatever the settings of the machine.
TextReturnedUnchanged ==
  [][Returning /\ IsText(source) => result' = Returned(TextOf(source))]_vars

\* C8, amended: for any input without directives execute returns the input
\* when generateLineControlStatements is disabled, as it is by default; when
\* it is enabled, a non-empty input is returned after the line control
\* statement #line 1 "main".
TextReturnedUnchangedByDefault ==
  [][Returning /\ IsText(source) =>
       result' = Returned(IF generateLineControlStatements /\ source # <<>>
                          THEN <<"#line ", "1", " \"", "main", "\"", NL>>
                                 \o TextOf(source)
                          ELSE TextOf(source))]_vars

\* a text of two lines, the last without terminator, was returned as it is
TwoLinesReturned ==
  /\ ~generateLineControlStatements
  /\ source = <<Line(<<"a", NL>>), Line(<<"a">>)>>
  /\ result = Returned(<<"a", NL, "a">>)

\* the chunks of a buffer before the i-th that are not line control statements
ChunksBefore(chunks, i) == {j \in 1..(i - 1) : ~chunks[j].control}

\* the i-th chunk comes from another source file than the chunk before it,
\* or there is no chunk before it
SwitchesFile(chunks, i) ==
  \/ ChunksBefore(chunks, i) = {}
  \/ chunks[Last(ChunksBefore(chunks, i))].file # chunks[i].file
  \/ chunks[Last(ChunksBefore(chunks, i))].path # chunks[i].path

\* C9: with generateLineControlStatements enabled, a #line statement stands
\* immediately before a chunk of the buffer of execute exactly when the chunk
\* comes from another source file (another path or another file name) than
\* the chunk before it, or is the first chunk; every #line statement is
\* followed by the chunk it announces; without the setting, and in the
\* buffers of inline expansions, there is no #line statement.
LineControlAtFileSwitches ==
  status = "running" =>
    /\ \A i \in DOMAIN buffers[1].chunks :
         LET chunks == buffers[1].chunks
         IN  IF chunks[i].control
             THEN generateLineControlStatements
                    /\ i < Len(chunks) /\ ~chunks[i + 1].control
             ELSE generateLineControlStatements =>
                    ((i > 1 /\ chunks[i - 1].control) <=> SwitchesFile(chunks, i))
    /\ \A b \in 2..Len(buffers) :
         \A i \in DOMAIN buffers[b].chunks : ~buffers[b].chunks[i].control

\* an ExpressionError or a SourceReadingError not yet caught
Raw == {"ExpressionError", "SourceReadingError"}
\* the errors the catch block of _execute throws for them
Enriched(kind) ==
  IF kind = "ExpressionError" THEN "ExpressionEvaluationError" ELSE "SourceInclusionError"

\* the error raised cites, once, the place of the last instruction evaluated,
\* and no raw error leaves execute
EnrichedOnce ==
  /\ Raised.kind \in {"ExpressionEvaluationError", "SourceInclusionError"} =>
       Raised.at = <<PlaceOf(Len(trace))>>
  /\ Raised.kind \in Raw => status = "throwing" /\ Raised.at = <<>>
  /\ status = "idle" => result.error.kind \notin Raw

IncludingUnsupported ==
  /\ IncludingSource
  /\ ~Skips(Instruction.once, Reference, includedSources)
  /\ ~HasReader(Reference)

\* the frame that evaluated the last instruction has caught the exception:
\* it travels further, or was thrown to the caller of execute
CaughtOnce ==
  \/ status = "idle" /\ result.state = "thrown"
  \/ status = "throwing" /\ Len(stack) < trace[Len(trace)].frames

\* C11: an @include whose evaluated reference no registered reader supports
\* raises an error with the message 'Source "<ref>" is not supported', and the
\* frame that evaluated the include rethrows it as SourceInclusionError citing
\* the file and line of the include instruction.
UnsupportedReferenceFails ==
  /\ [][IncludingUnsupported =>
          /\ status' = "throwing"
          /\ exc'.message = <<"Source \"", Reference, "\" is not supported">>]_vars
  /\ [](CaughtOnce /\ Raised.message = <<"Source \"", RefLocal, "\" is not supported">> =>
          /\ Raised.kind = "SourceInclusionError"
          /\ Raised.at = <<PlaceOf(Len(trace))>>)

\* no chunk is pushed to a buffer, and no buffer is made
NothingAppended ==
  \A b \in DOMAIN buffers' : b \in DOMAIN buffers /\ buffers'[b] = buffers[b]

\* the instruction at pc is an @error, or an Output, Set or Warning whose
\* expression fails
FailsNow ==
  /\ Evaluating
  /\ \/ Instruction.type = INSTRUCTIONS.ERROR
     \/ /\ Instruction.type \in {INSTRUCTIONS.OUTPUT, INSTRUCTIONS.SET, INSTRUCTIONS.WARNING}
        /\ ~Instruction.computed
        /\ Evaluate(Instruction.value, EvalContext).tag = "error"

\* an @error instruction is the last instruction its call evaluates, and the
\* call does not return
ErrorIsLast ==
  \A i \in DOMAIN trace :
    trace[i].type = INSTRUCTIONS.ERROR =>
      i = Len(trace) /\ status # "running" /\ result.state # "returned"

\* C12: when the evaluation of an instruction fails (an @error, an expression
\* that fails, a read that fails, the depth limit), nothing is pushed by the
\* failing step, and from then on no instruction of any frame is evaluated,
\* no buffer is appended to, and the exception leaves execute: the call ends
\* thrown, never returned.
ErrorsAreFatal ==
  /\ []ErrorIsLast
  /\ [][FailsNow => status' = "throwing" /\ buffers' = buffers]_vars
  /\ [][status = "running" /\ status' = "throwing" =>
          \A b \in DOMAIN buffers : buffers'[b] = buffers[b]]_vars
  /\ [][status = "throwing" =>
          /\ trace' = trace
          /\ NothingAppended
          /\ status' \in {"throwing", "idle"}
          /\ Len(stack') = Len(stack) - 1
          /\ status' = "idle" =>
               result'.state = "thrown" /\ result'.error.kind = exc'.kind]_vars

\* the division by zero in the included e.builder was thrown to the caller
\* of execute: the line of the main source after the include was not evaluated
\* and the buffer holds what e.builder had pushed before
ErrorEndedCall ==
  /\ source = <<IncludeLine(ELit(Str(RefE)), FALSE), Line(<<"t", NL>>)>>
  /\ status = "idle"
  /\ result.state = "thrown"
  /\ Len(trace) = 3
  /\ trace[3].frames = 2
  /\ Join(buffers[1].chunks) = <<"e", NL>>

\* an execute call starts
Starting == status = "idle" /\ status' = "running"

\* the tables of the machine are empty and _depth counts the one frame of the
\* top-level source
Fresh ==
  /\ macros = NoMacros
  /\ globalContext = EmptyContext
  /\ includedSources = {}
  /\ depth = 1
  /\ Len(stack) = 1

\* the macros, the variables and the included references of the machine are
\* those the running (or last) call has declared, set and read
OwnTables ==
  /\ \A name \in DOMAIN macros : Declarations(name) # {}
  /\ \A variable \in DOMAIN globalContext :
       Assignments(variable) # {} \/ Declarations(variable) # {}
  /\ \A ref \in includedSources : ReadsOf(ref) # {}
  /\ status = "running" => depth = Len(stack)

\* a Macro instruction for a name the running call has not declared is about
\* to be evaluated
DeclaringFirst ==
  /\ Evaluating
  /\ Instruction.type = INSTRUCTIONS.MACRO
  /\ Declarations(Instruction.declaration.name) = {}

\* an Include instruction for a reference that has a reader and that the
\* running call has not read is about to be evaluated
IncludingFirst ==
  /\ IncludingSource
  /\ HasReader(Reference)
  /\ ReadsOf(Reference) = {}

\* C13: every execute call starts with an empty macro table, GlobalContext
\* and IncludedSet and with _depth counting its own frames only, whatever the
\* call before did on the same machine (also when it failed with frames
\* open); so a name declared by an earlier call is declared again without
\* error, and an @include once of a reference an earlier call included is
\* read again.
ExecuteStartsFresh ==
  /\ []OwnTables
  /\ [][Starting => Fresh']_vars
  /\ [][DeclaringFirst =>
          /\ status' = "running"
          /\ Instruction.declaration.name \in DOMAIN macros']_vars
  /\ [][IncludingFirst =>
          reads' = Append(reads, [ref |-> Reference, once |-> Instruction.once])]_vars

\* after a call that failed in e.builder with two frames open, having
\* declared M, set v and included RefA, the next call has read v as null,
\* declared M, set v, and read RefA for its @include once, and has returned
SecondCallReturned ==
  /\ previous = FailingMidway
  /\ source = DeclaringAgain
  /\ status = "idle"
  /\ result = Returned(<<"null", NL, "a", NL>>)
  /\ reads = <<[ref |-> RefA, once |-> TRUE]>>
  /\ depth = 0

\* every evaluation of the history was given the line of its instruction as
\* __LINE__
EvaluatedAtOwnLine ==
  \A i \in DOMAIN trace :
    \A j \in DOMAIN trace[i].evaluations :
      trace[i].evaluations[j].context = Num(trace[i].evaluations[j].line)

\* the line of the instruction whose expression the last evaluation of the
\* history evaluated
LastEvaluatedLine ==
  LET made == trace[Len(trace)].evaluations IN made[Len(made)].line

\* an expression error is enriched with the line of the instruction whose
\* expression failed
EnrichedWithOwnLine ==
  Raised.kind = "ExpressionEvaluationError" =>
    Raised.at = <<[file |-> trace[Len(trace)].file, line |-> Num(LastEvaluatedLine)]>>

\* C14: whenever an expression is evaluated for an instruction, the __LINE__
\* of the context is the line of that instruction: for the test of an @if and
\* of each @elseif (the line of the @elseif), for a loop condition on every
\* turn, and in macro bodies and included sources; and an expression error is
\* enriched with that line.
LineIsTheInstructions ==
  [](EvaluatedAtOwnLine /\ EnrichedWithOwnLine)

\* the __FILE__ and __PATH__ of a context
FileOf(ctx) == [file |-> Variable("__FILE__", ctx), path |-> Variable("__PATH__", ctx)]

\* the frame just entered
Inner == stack'[Len(stack')]

\* the file and path in which the macro being expanded was declared: those
\* of the step of the history that declared it
DeclaredIn ==
  LET i == Last(Declarations(Instruction.value.name))
  IN  [file |-> trace[i].file, path |-> trace[i].path]

\* the file and path of a reference of the repository
Located(ref) ==
  [file |-> Str(Repository[ref].base),
   path |-> Str(IF Repository[ref].dir = "lib" THEN "github:u/r/lib"
                ELSE IF Repository[ref].dir = "lib2" THEN "github:u/r/lib2"
                ELSE "github:u/r/cyc")]

\* every frame that stays on the stack keeps its file and path
FramesKeepFile ==
  \A k \in 1..Min(Len(stack), Len(stack')) :
    FileOf(stack'[k].context) = FileOf(stack[k].context)

\* every instruction of the history was evaluated in the file of the frame
\* that holds it: the frame of the top-level source is in the machine's file
TopLevelInMachineFile ==
  /\ stack # <<>> =>
       FileOf(stack[1].context) = [file |-> Str(MachineFile), path |-> Str(MachinePath)]
  /\ \A i \in DOMAIN trace :
       trace[i].frames = 1 => trace[i].file = Str(MachineFile) /\ trace[i].path = Str(MachinePath)

\* C15: the __FILE__ and __PATH__ of the context name the source that holds
\* the instruction evaluated: the machine's file and path for the top-level
\* source, the file and path of the reference for an included source, the
\* file and path of the declaration for a macro body, whatever file calls
\* the macro, and those of the enclosing frame for a branch or a loop body;
\* a frame keeps them while it is on the stack, so they are back when an
\* include or an expansion returns.
FileIsLexical ==
  /\ []TopLevelInMachineFile
  /\ [][IncludingSource /\ Entered => FileOf(Inner.context) = Located(Reference)]_vars
  /\ [][Expanding /\ Entered => FileOf(Inner.context) = DeclaredIn]_vars
  /\ [][Evaluating /\ Entered
          /\ Instruction.type \in {INSTRUCTIONS.CONDITIONAL, INSTRUCTIONS.LOOP} =>
            FileOf(Inner.context) = FileOf(Top.context)]_vars
  /\ [][~Starting => FramesKeepFile]_vars

\* the test source returned the path, file and line of path.builder once,
\* after the line of the main source
PathTestReturned ==
  /\ source = IncludeOnceTest2
  /\ result = Returned(<<"t", NL, "github:u/r/lib", "#", "path.builder", "@", "1", NL>>)
  /\ Len(reads) = 1

\* the body of macro M, declared in d.builder, is being evaluated for a call
\* in the main source
MacroBodyInDeclarationFile ==
  /\ Evaluating
  /\ Top.kind = "macro"
  /\ Len(stack) = 2
  /\ FileOf(Top.context) = Located(RefD)
  /\ FileOf(stack[1].context) = [file |-> Str(MachineFile), path |-> Str(MachinePath)]

\* the last instruction of the history was refused its nested frame
DepthReachedRaised == Raised.kind = "MaxExecutionDepthReachedError"

\* C16: the MaxExecutionDepthReachedError cites the file that holds the
\* instruction (include, macro call, conditional or loop) whose nested frame
\* was refused, with the line of that instruction.
DepthErrorCitesInstruction ==
  [](DepthReachedRaised => Raised.at = <<PlaceOf(Len(trace))>>)

\* the step reads and parses an included source
ParsingIncluded == IncludingSource /\ Entered

\* C17: when a source is parsed, parser.file is the name of the file parsed:
\* the machine's file when execute parses the top-level source, also in a
\* call that follows a call that included another source, and the file of
\* the reference when an included source is parsed.
ParserFileIsTheFileParsed ==
  /\ [][Starting => parserFile' = MachineFile]_vars
  /\ [][ParsingIncluded => Str(parserFile') = Located(Reference).file]_vars

\* the tests and the bodies of the chain of the Conditional at pc, in order
ChainTests ==
  <<Instruction.test>> \o [i \in DOMAIN Instruction.elseifs |-> Instruction.elseifs[i].test]
ChainBodies ==
  <<Instruction.consequent>>
    \o [i \in DOMAIN Instruction.elseifs |-> Instruction.elseifs[i].consequent]

\* the i-th test of the chain evaluates to a truthy value
TruthyTest(i) ==
  /\ Evaluate(ChainTests[i], EvalContext).tag = "value"
  /\ Truthy(Evaluate(ChainTests[i], EvalContext).v)

\* the first truthy test of the chain, 0 when there is none
FirstTruthy ==
  IF \E i \in DOMAIN ChainTests : TruthyTest(i)
  THEN CHOOSE i \in DOMAIN ChainTests :
         TruthyTest(i) /\ \A j \in 1..(i - 1) : ~TruthyTest(j)
  ELSE 0

\* the tests the chain comes to: up to the first truthy one
TestsReached == IF FirstTruthy = 0 THEN Len(ChainTests) ELSE FirstTruthy

\* a Conditional is about to be evaluated, none of the tests it comes to
\* fails, and the depth limit is not reached
Branching ==
  /\ Evaluating
  /\ Instruction.type = INSTRUCTIONS.CONDITIONAL
  /\ \A i \in 1..TestsReached : Evaluate(ChainTests[i], EvalContext).tag = "value"
  /\ depth < MAX_EXECUTION_DEPTH

\* the step enters a frame for the body ast and nothing else
EntersOnly(ast) ==
  /\ Entered
  /\ Inner.ast = ast
  /\ Inner.pc = 1
  /\ SubSeq(stack', 1, Len(stack)) = WithContext(stack, Context)

\* the handler evaluated the tests the chain comes to, and no other
EvaluatedReached == Len(trace'[Len(trace')].evaluations) = TestsReached

\* the frame of a body of a chain returns: the frame of the chain goes on
\* with the instruction after the chain
BranchReturns ==
  /\ status = "running"
  /\ Top.kind = "branch"
  /\ Len(stack') = Len(stack) - 1

\* C18: a chain evaluates its tests in order up to the first truthy one and
\* executes the body of that test and no other; the tests after it are not
\* evaluated; the alternate is executed if and only if no test is truthy;
\* without a truthy test and without alternate nothing is executed; and when
\* the body returns the instruction after the chain is next.
ChainTakesFirstTruthy ==
  /\ [][Branching /\ FirstTruthy > 0 =>
          EntersOnly(ChainBodies[FirstTruthy]) /\ EvaluatedReached]_vars
  /\ [][Branching /\ FirstTruthy = 0 /\ Instruction.hasAlternate =>
          EntersOnly(Instruction.alternate) /\ EvaluatedReached]_vars
  /\ [][Branching /\ FirstTruthy = 0 /\ ~Instruction.hasAlternate =>
          NoOp /\ EvaluatedReached]_vars
  /\ [][BranchReturns =>
          /\ status' = "running"
          /\ stack'[Len(stack')].pc = stack[Len(stack')].pc + 1
          /\ buffers' = buffers]_vars

\* the chain took the branch of its first @elseif: the division by zero of
\* the second @elseif was not evaluated, and neither a, b nor n was emitted
SecondTestTaken ==
  /\ source = ShortCircuit
  /\ result = Returned(<<"z", NL, "t", NL>>)
  /\ Len(trace[2].evaluations) = 2

\* a repeat loop is about to evaluate its count for the turn of index
\* Top.index, the count evaluates to a value, and the depth limit is not
\* reached
Repeating ==
  /\ Evaluating
  /\ Instruction.type = INSTRUCTIONS.LOOP
  /\ Instruction.kind = "repeat"
  /\ Evaluate(Instruction.value, EvalContext).tag = "value"
  /\ depth < MAX_EXECUTION_DEPTH

\* the value of the count of the repeat loop at pc
Count == Evaluate(Instruction.value, EvalContext).v

\* the turns a repeat loop with that count has left at index
TurnsLeft(count, index) == count.k = "num" /\ index < count.n

\* C19: a repeat loop whose count evaluates to N runs its body for the
\* indexes 0..N-1, with loop.index the index of the turn (loop.iteration is
\* one more), and stops when no turn is left; the count is evaluated again
\* before every turn, over GlobalContext overlaid by the local context.
RepeatRunsCountedTurns ==
  /\ [][Repeating /\ TurnsLeft(Count, Top.index) =>
          /\ Entered
          /\ Inner.ast = Instruction.body
          /\ Variable("loop", Inner.context) = LoopObj(Top.index)
          /\ Len(trace'[Len(trace')].evaluations) = 1]_vars
  /\ [][Repeating /\ ~TurnsLeft(Count, Top.index) => NoOp]_vars

\* the top frame is at its end and returns to the call that made it
Completing == status = "running" /\ Top.pc > Len(Top.ast)

\* _depth is the number of frames of a call that has not failed, between 0
\* and MAX_EXECUTION_DEPTH, and 0 once the call has returned
DepthCountsFrames ==
  /\ status = "running" => depth = Len(stack)
  /\ result.state = "returned" /\ status = "idle" => depth = 0 /\ stack = <<>>
  /\ status = "running" \/ result.state = "returned" =>
       depth \in 0..MAX_EXECUTION_DEPTH

\* the turns of loop bodies the call has run: the Set instructions of the
\* history evaluated in a second frame
TurnsRun == {i \in DOMAIN trace : trace[i].frames = 2 /\ trace[i].type = INSTRUCTIONS.SET}

\* C20: while an execute call has not failed, _depth is the number of its
\* frames (top-level source, included sources, macro expansions, branches and
\* the loop turn in progress) and stays within 0..256; a frame that completes
\* gives back the one it took, so _depth is 0 when execute returns, and the
\* turns of a loop do not add up: a loop of more turns than the limit does
\* not raise MaxExecutionDepthReachedError.
DepthIsFrameCount ==
  /\ []DepthCountsFrames
  /\ [][Completing => depth' = depth - 1 /\ Len(stack') = Len(stack) - 1]_vars
  /\ [][Evaluating /\ status' = "running" =>
          /\ depth' - depth = Len(stack') - Len(stack)
          /\ depth' - depth \in {0, 1}]_vars
  /\ [](source = RepeatLong => Raised.kind # "MaxExecutionDepthReachedError")

\* the loop of 257 turns has run them all with two frames and the call has
\* returned
LongLoopReturned ==
  /\ source = RepeatLong
  /\ result = Returned(<<"t", NL>>)
  /\ Cardinality(TurnsRun) = MAX_EXECUTION_DEPTH + 1
  /\ depth = 0

\* the chunks a are the first chunks of b
IsPrefix(a, b) == Len(a) <= Len(b) /\ SubSeq(b, 1, Len(a)) = a

\* every buffer that is there before and after the step holds after it what
\* it held before, and then what the step pushed
BuffersGrow ==
  \A b \in DOMAIN buffers \cap DOMAIN buffers' :
    IsPrefix(buffers[b].chunks, buffers'[b].chunks)

\* the frame of an expression-level macro call returns: its buffer is
\* trimmed, joined and dropped
InlineReturns == Completing /\ Top.kind = "inline"

InInline(k) == \E j \in 1..k : stack[j].kind = "inline"

\* what the context of the k-th frame binds __INLINE__ to
InlineOf(ctx) == Variable("__INLINE__", ctx)

\* the context of every frame of an expression-level call binds __INLINE__
\* to true
InlineEverywhere ==
  \A k \in DOMAIN stack : InInline(k) => InlineOf(stack[k].context) = Bool(TRUE)

\* the fresh buffers hold no line control statement
NoControlInFresh ==
  \A b \in 2..Len(buffers) :
    \A i \in DOMAIN buffers[b].chunks : ~buffers[b].chunks[i].control

\* the instruction at pc calls a macro in an expression
CallingInline ==
  /\ Evaluating
  /\ Instruction.type = INSTRUCTIONS.OUTPUT
  /\ ~Instruction.computed
  /\ Evaluate(Instruction.value, EvalContext).tag = "call"

\* the body is entered with a buffer of its own, empty
EntersFresh ==
  /\ Inner.kind = "inline"
  /\ Inner.buffer = Len(buffers) + 1
  /\ Len(buffers') = Len(buffers) + 1
  /\ buffers'[Inner.buffer] = NewBuffer

\* the buffers below that of an expression-level call in progress are left
\* as they are
EnclosingUntouched ==
  \A k \in DOMAIN stack \cap DOMAIN stack' :
    stack[k].kind = "inline" /\ stack'[k].kind = "inline" =>
      \A b \in 1..(stack[k].buffer - 1) : buffers'[b] = buffers[b]

\* the string the call returns: the text of the chunk the Output instruction
\* pushes to the caller's buffer
ReturnedString ==
  LET pushed == buffers'[stack[Len(stack) - 1].buffer].chunks
  IN  pushed[Len(pushed)].text

ShadowsInline ==
  Expanding /\ "__INLINE__" \in BoundParameters(Expanded.args, Given)

\* the frame entered is in inline mode when it is the body of an
\* expression-level call, and otherwise when the frame that enters it is
InheritsInline ==
  InlineOf(Inner.context) =
    IF Inner.kind = "inline" THEN Bool(TRUE) ELSE InlineOf(Context)

\* the chunks the step pushed to the buffer b
PushedTo(b) ==
  {i \in DOMAIN buffers'[b].chunks : i > Len(buffers[b].chunks)}

\* a frame in inline mode pushes no line control statement
NoControlWhenInline ==
  /\ Evaluating /\ Truthy(InlineOf(Context)) /\ Top.buffer \in DOMAIN buffers' =>
       \A i \in PushedTo(Top.buffer) : ~buffers'[Top.buffer].chunks[i].control
  /\ InlineReturns /\ Truthy(InlineOf(stack[Len(stack) - 1].context)) =>
       \A i \in PushedTo(stack[Len(stack) - 1].buffer) :
         ~buffers'[stack[Len(stack) - 1].buffer].chunks[i].control

\* the chunks joined, the last without its trailing newline
JoinTrimmed(chunks) ==
  IF chunks = <<>> THEN <<>>
  ELSE Join(SubSeq(chunks, 1, Len(chunks) - 1)) \o TrimNewline(chunks[Len(chunks)].text)

CallersKeepContext ==
  \A k \in DOMAIN stack \cap DOMAIN stack' :
    k < Len(stack) => stack'[k].context = stack[k].context

\* the names a frame entered may add to the context of the frame that enters
\* it
Overlaid == {"__FILE__", "__PATH__", "__INLINE__", "loop", "p", "q", "__LINE__"}

\* C23: what a nested frame overlays on the context (parameters, loop,
\* __INLINE__, the __FILE__ and __PATH__ of an included source or of a macro)
\* is in the context of that frame and of the frames nested in it only: the
\* context of an enclosing frame does not change while frames are nested in
\* it, the frame that evaluates an instruction only gets the __LINE__ of
\* that instruction, and when a frame returns the context of its caller is
\* what it was and GlobalContext keeps what the frame assigned.
OverlaysStayInFrame ==
  /\ [][~Starting => CallersKeepContext]_vars
  /\ [][Evaluating /\ Len(stack') >= Len(stack) =>
          stack'[Len(stack)].context = Context]_vars
  /\ [][Completing /\ Len(stack) > 1 =>
          /\ stack'[Len(stack')].context = stack[Len(stack) - 1].context
          /\ globalContext' = globalContext]_vars
  /\ [][Evaluating /\ Entered =>
          \A x \in DOMAIN Inner.context :
            x \in Overlaid \/ (x \in DOMAIN Context /\ Inner.context[x] = Context[x])]_vars

\* after p and q were set, d.builder included and M(1) expanded with p bound
\* to 1, the frame of the main source has neither p nor q in its context, is
\* in the machine's file, and GlobalContext still holds p = 7 and the macro
LocalsGoneAfterReturn ==
  /\ source = Prelude \o <<IncludeLine(ECall("M", <<ELit(Num(1))>>), FALSE)>>
  /\ status = "running"
  /\ Len(stack) = 1
  /\ Top.pc = 5
  /\ DOMAIN Top.context = {"__FILE__", "__PATH__", "__LINE__", "include"}
  /\ Top.context["__FILE__"] = Str(MachineFile)
  /\ globalContext["p"] = Num(7)
  /\ "M" \in DOMAIN macros

\* ---------------------------------------------------------------- C24

\* the lines given hold no macro declaration and no loop, and every include
\* directive among them, inside branches too, names its source literally
\* and carries the once flag
RECURSIVE OnceOnly(_)
OnceOnly(lines) ==
  \A i \in DOMAIN lines :
    /\ lines[i].d \notin {"macro", "while", "repeat"}
    /\ lines[i].d = "include" => lines[i].once /\ lines[i].value.e = "lit"
    /\ OnceOnly(lines[i].body)
    /\ OnceOnly(lines[i].alt)
    /\ \A j \in DOMAIN lines[i].elseifs : OnceOnly(lines[i].elseifs[j].body)

Largest(S) == IF S = {} THEN 0 ELSE CHOOSE n \in S : \A m \in S : m <= n

\* how deep the conditional branches of the lines given are nested
RECURSIVE Nesting(_)
Nesting(lines) ==
  Largest({IF lines[i].d # "if" THEN 0
           ELSE 1 + Largest({Nesting(lines[i].body), Nesting(lines[i].alt)}
                              \cup {Nesting(lines[i].elseifs[j].body) :
                                      j \in DOMAIN lines[i].elseifs})
           : i \in DOMAIN lines})

\* the sources of the call so far: the one execute was given and the ones
\* read
SourcesSoFar ==
  {source} \cup {Repository[reads[i].ref].content : i \in DOMAIN reads}

OnceProgram == \A lines \in SourcesSoFar : OnceOnly(lines)

\* the distinct references of the call so far
Distinct == Cardinality({reads[i].ref : i \in DOMAIN reads})

Deepest == Largest({Nesting(lines) : lines \in SourcesSoFar})

\* the frames of the main source and of every source included, each with
\* the branches that can be open in it, fit under the depth limit
Shallow == (Distinct + 1) * (Deepest + 1) <= MAX_EXECUTION_DEPTH

ReadOnce == \A i, j \in DOMAIN reads : reads[i].ref = reads[j].ref => i = j

\* C24 as stated: when every include directive carries the once flag, the
\* sources hold no macros and no loops, and fewer distinct sources are
\* referenced than the depth limit, no MaxExecutionDepthReachedError is
\* raised.
OnceNeverTooDeep ==
  OnceProgram /\ Distinct < MAX_EXECUTION_DEPTH => ~DepthReachedRaised

\* C24, amended: when every include directive carries the once flag, the
\* sources hold no macros and no loops, and the distinct references plus
\* one, times the deepest nesting of conditional branches plus one, is at
\* most the depth limit, then every source is read at most once, the frames
\* stay within that product, and no MaxExecutionDepthReachedError is raised,
\* also when the sources include themselves or each other.
OnceIncludesEnd ==
  OnceProgram /\ Shallow =>
    /\ ReadOnce
    /\ Len(stack) <= (Distinct + 1) * (Deepest + 1)
    /\ ~DepthReachedRaised

\* the sources that include themselves and each other have been included,
\* each once, and the call has returned
CycleReturned ==
  /\ source = <<IncludeLine(ELit(Str(RefO)), TRUE), IncludeLine(ELit(Str(RefS)), TRUE)>>
  /\ reads = <<[ref |-> RefO, once |-> TRUE], [ref |-> RefS, once |-> TRUE]>>
  /\ status = "idle"
  /\ result = Returned(<<"s", NL, "o", NL>>)

\* ---------------------------------------------------------------- C25

\* the definition a Macro instruction stored is still in the macro table
\* after the step, unless the step starts an execute call
MacroTableKeeps ==
  \A name \in DOMAIN macros :
    Starting \/ (name \in DOMAIN macros' /\ macros'[name] = macros[name])

\* every macro of the table is bound in GlobalContext to its callable
CallableBound ==
  \A name \in DOMAIN macros : Variable(name, globalContext) = MacroFn(name)

\* C25: once a Macro instruction has declared M, for the rest of the execute
\* call M stays in the macro table and stays bound in GlobalContext to the
\* callable of the macro: no later instruction removes or replaces either.
MacroBindingsStay == [][MacroTableKeeps]_vars /\ []CallableBound

\* ---------------------------------------------------------------- C26

\* the instruction at pc is about to read its reference with GithubReader
Reading ==
  /\ IncludingSource
  /\ ~Skips(Instruction.once, Reference, includedSources)
  /\ HasReader(Reference)

\* the worker ran out of its time: spawnSync sets the error of the timeout
TimedOut(child) == child.errno = "ETIMEDOUT"

\* C26: GithubReader.read returns the content only when the worker exits
\* with status 0 and reports no error; every other outcome raises
\* SourceReadingError and returns no content, and a timeout is reported with
\* the message of the timeout.
ReadReturnsOrReports ==
  Reading =>
    \A child \in ChildResultsFor(Reference) :
      LET res == Read(Reference, child)
      IN  /\ res.ok <=> StatusIs(child, 0) /\ child.errno = ""
          /\ res.ok => res.content = Repository[Reference].content
          /\ ~res.ok => res.kind = "SourceReadingError" /\ res.content = <<>>
          /\ TimedOut(child) => res.message = "timed out"

====
